---------------------------- MODULE Spec2Model ----------------------------
(***************************************************************************)
(* Harmony character engine (src/Player.py): genetic profile, attribute    *)
(* ranges with boundary normalisation, the modifier pipeline run by        *)
(* Player.__init__, skill seeding, Skillset XP/levels, and the             *)
(* create / XP-panel / load handlers of CharacterCreationUI.               *)
(*                                                                         *)
(* Number representation.  The program computes with Python floats; the    *)
(* model uses fixed point:                                                 *)
(*   - ability floor/ceiling/current are in THOUSANDTHS of a point, so    *)
(*     1000 is one point and 99000 is the upper end 99;                    *)
(*   - slider floor/ceiling/current are in HUNDREDTHS of a point;          *)
(*   - trait, slider and skillset weights are in HUNDREDTHS;               *)
(*   - age modifiers are in THOUSANDTHS (tabulated, see AgeModifierTable); *)
(*   - xp is in whole XP points (products are rounded down).               *)
(***************************************************************************)
EXTENDS Integers, Sequences, FiniteSets, TLC

\* ------------------------------------------------------------------------
\* Small helpers
\* ------------------------------------------------------------------------
Abs(x) == IF x < 0 THEN -x ELSE x

Min2(a, b) == IF a < b THEN a ELSE b

Max2(a, b) == IF a > b THEN a ELSE b

Clamp(x, lo, hi) == Min2(Max2(x, lo), hi)

\* Python round() of the quotient n / d (d > 0): to the nearest integer,
\* a tie to the even one.
RoundDiv(n, d) ==
    LET q == n \div d
        r == n - q * d
    IN IF 2 * r < d THEN q
       ELSE IF 2 * r > d THEN q + 1
       ELSE IF q % 2 = 0 THEN q ELSE q + 1

\* F applied to the value of x: a Python statement runs on the finished
\* result of the statement before it
Then(x, F(_)) == CHOOSE r \in {F(v) : v \in {x}} : TRUE

Range(s) == {s[i] : i \in DOMAIN s}

RECURSIVE SumSeq(_)
SumSeq(s) == IF s = <<>> THEN 0 ELSE Head(s) + SumSeq(Tail(s))

RECURSIVE SumOver(_, _)
SumOver(f, S) ==
    IF S = {} THEN 0
    ELSE LET x == CHOOSE y \in S : TRUE IN f[x] + SumOver(f, S \ {x})

\* ------------------------------------------------------------------------
\* Markers (MARKERS, src/Player.py:15) and their case
\* ------------------------------------------------------------------------
MARKERS == <<"A", "D", "E", "I", "B", "M">>

LowerOf == ("A" :> "a") @@ ("D" :> "d") @@ ("E" :> "e")
           @@ ("I" :> "i") @@ ("B" :> "b") @@ ("M" :> "m")

UpperOf == ("a" :> "A") @@ ("d" :> "D") @@ ("e" :> "E")
           @@ ("i" :> "I") @@ ("b" :> "B") @@ ("m" :> "M")

UpperLetters == DOMAIN LowerOf

LowerLetters == DOMAIN UpperOf

\* str.isupper()
isupper(m) == m \in UpperLetters

\* str.islower()
islower(m) == m \in LowerLetters

\* str.lower()
lower(m) == IF m \in UpperLetters THEN LowerOf[m] ELSE m

\* str.upper()
upper(m) == IF m \in LowerLetters THEN UpperOf[m] ELSE m


\* ------------------------------------------------------------------------
\* Genetics (src/Player.py:1969-2046)
\* ------------------------------------------------------------------------
RECURSIVE MapLower(_)
MapLower(s) ==
    IF s = <<>> THEN <<>> ELSE <<lower(Head(s))>> \o MapLower(Tail(s))

\* a process_source that, finding no upper-case marker in preset mode, takes
\* the first marker as the expressed one
process_source_lenient(source_markers, expression_defined, chosen_index) ==
    LET ups == {i \in DOMAIN source_markers : isupper(source_markers[i])}
        first == IF ups = {} THEN 1 ELSE CHOOSE i \in ups : \A j \in ups : i <= j
    IN IF source_markers = <<>>
       THEN [ok |-> FALSE, expressed |-> "", dormant |-> <<>>]
       ELSE [ok |-> TRUE,
             expressed |-> source_markers[first],
             dormant |-> MapLower(SelectSeq(source_markers,
                             LAMBDA m : m # source_markers[first]))]

\* Genetics.process_source.  chosen_index is the value drawn by
\* random.randrange(len(source_markers)) (1-based here); it is read only when
\* expression_defined is FALSE.  ok = FALSE stands for the ValueError raised:
\* by process_source itself in preset mode, by randrange(0) in random mode.
process_source(source_markers, expression_defined, chosen_index) ==
    IF expression_defined
    THEN LET ups == {i \in DOMAIN source_markers : isupper(source_markers[i])} IN
         IF ups = {}
         THEN [ok |-> FALSE, expressed |-> "", dormant |-> <<>>]
         ELSE LET first == CHOOSE i \in ups : \A j \in ups : i <= j
                  expressed == source_markers[first]
              IN [ok |-> TRUE,
                  expressed |-> expressed,
                  dormant |-> MapLower(SelectSeq(source_markers,
                                                 LAMBDA m : m # expressed))]
    ELSE IF source_markers = <<>>
    THEN [ok |-> FALSE, expressed |-> "", dormant |-> <<>>]
    ELSE [ok |-> TRUE,
          expressed |-> source_markers[chosen_index],
          dormant |-> MapLower([i \in 1..(Len(source_markers) - 1) |->
                                  IF i < chosen_index
                                  THEN source_markers[i]
                                  ELSE source_markers[i + 1]])]

\* Genetics.__init__: the three sources processed separately; idx gives the
\* three random draws (father, mother, planet).
GeneticsInit(father, mother, planet, expression_defined, idx) ==
    LET f == process_source(father, expression_defined, idx[1])
        m == process_source(mother, expression_defined, idx[2])
        p == process_source(planet, expression_defined, idx[3])
    IN [ok |-> f.ok /\ m.ok /\ p.ok,
        expression_defined |-> expression_defined,
        father |-> father, mother |-> mother, planet |-> planet,
        expressed |-> <<f.expressed, m.expressed, p.expressed>>,
        dormant |-> f.dormant \o m.dormant \o p.dormant]

\* Genetics.get_markers
get_markers(g) == g.expressed \o g.dormant

\* a draw with replacement: the first drawn marker three times
pass_genes_with_replacement(g, perm) == [i \in 1..3 |-> g.expressed[perm[1]]]

\* Genetics.pass_genes: random.sample(self.expressed, 3); perm is the drawn
\* order, a permutation of 1..3.
pass_genes(g, perm) == [i \in 1..3 |-> g.expressed[perm[i]]]

\* ------------------------------------------------------------------------
\* AttributeRange and boundary normalisation (values in thousandths)
\* ------------------------------------------------------------------------
AttributeRange(f, c, cur) == [floor |-> f, ceiling |-> c, current |-> cur]

\* a normalisation that moves the other bound away from the crossed limit,
\* so that the width stays what it was
boundary_check_shift(ability_range) ==
    LET f == ability_range.floor
        c == ability_range.ceiling
        s == IF f < 0 /\ c < 1000 THEN <<0, 1000>>
             ELSE IF f > 99000 /\ c > 99000 THEN <<99000, 99000>>
             ELSE IF f < 0 THEN <<0, c - f>>
             ELSE IF c > 99000 THEN <<f - (c - 99000), 99000>>
             ELSE <<f, c>>
        midpoint == ((s[1] + s[2]) \div 2000) * 1000
        t == IF s[1] > s[2] THEN <<midpoint, midpoint>> ELSE s
    IN AttributeRange(t[1], t[2], t[1])

\* Player.boundary_check (src/Player.py:2510-2533); 1000 = 1, 99000 = 99.
\* The midpoint uses Python's floor division, so it is a whole point.
boundary_check(ability_range) ==
    LET f == ability_range.floor
        c == ability_range.ceiling
        s == IF f < 0 /\ c < 1000 THEN <<0, 1000>>
             ELSE IF f > 99000 /\ c > 99000 THEN <<99000, 99000>>
             ELSE IF f < 0 THEN <<0, c + f>>
             ELSE IF c > 99000 THEN <<f + (c - 99000), 99000>>
             ELSE <<f, c>>
        midpoint == ((s[1] + s[2]) \div 2000) * 1000
        t == IF s[1] > s[2] THEN <<midpoint, midpoint>> ELSE s
    IN AttributeRange(t[1], t[2], t[1])

\* ------------------------------------------------------------------------
\* Skillset (src/Player.py:2585-2657)
\* ------------------------------------------------------------------------
\* SKILL_PROGRESSION "XP Required", levels 0..10 (index = level + 1)
SKILL_PROGRESSION ==
    <<0, 500, 1000, 2500, 5000, 12500, 25000, 50000, 125000, 250000, 500000>>

\* the row of SKILL_PROGRESSION_DF with 'Level' == lvl
XPRequired(lvl) == SKILL_PROGRESSION[lvl + 1]

\* the loop of Skillset.get_level_for_xp from lvl on: level is the level
\* found so far; the loop stops at the first level not qualified for.
\* the loop with a strict comparison: a threshold itself does not qualify
RECURSIVE LevelLoopStrict(_, _, _)
LevelLoopStrict(xp_amount, lvl, level) ==
    IF lvl > 10 THEN level
    ELSE IF xp_amount > XPRequired(lvl)
         THEN LevelLoopStrict(xp_amount, lvl + 1, lvl)
         ELSE level

RECURSIVE LevelLoop(_, _, _)
LevelLoop(xp_amount, lvl, level) ==
    IF lvl > 10 THEN level
    ELSE IF xp_amount >= XPRequired(lvl)
         THEN LevelLoop(xp_amount, lvl + 1, lvl)
         ELSE level

\* Skillset.get_level_for_xp
get_level_for_xp(xp_amount) == LevelLoop(xp_amount, 1, 0)

\* Skillset.__init__
NewSkillset == [xp |-> 0, level |-> 0]

\* increment_xp storing the new level only when it is a level-up
increment_xp_level_up_only(skillset, d_xp) ==
    LET xp == skillset.xp + d_xp
        new_level == get_level_for_xp(xp)
    IN [xp |-> xp,
        level |-> IF new_level > skillset.level THEN new_level ELSE skillset.level]

\* a Skillset whose xp is set to the amount instead of raised by it
increment_xp_assign(skillset, d_xp) ==
    [xp |-> d_xp, level |-> get_level_for_xp(d_xp)]

\* Skillset.increment_xp
increment_xp(skillset, d_xp) ==
    LET xp == skillset.xp + d_xp
    IN [xp |-> xp, level |-> get_level_for_xp(xp)]

\* Skillset.xp_to_next_level; None is the Python None
None == "None"

\* the distance to the threshold of the level the skillset is at
xp_to_next_level_of_current(skillset) ==
    IF skillset.level >= 10 THEN None
    ELSE XPRequired(skillset.level) - skillset.xp

xp_to_next_level(skillset) ==
    IF skillset.level >= 10 THEN None
    ELSE XPRequired(skillset.level + 1) - skillset.xp

\* ------------------------------------------------------------------------
\* Catalogs (module-level tables of src/Player.py)
\* ------------------------------------------------------------------------
BASE_ABILITIES ==
    <<"Portaling", "Strategy", "Fishing", "Technique", "Willpower",
      "Resilience", "Recovery", "Strength", "Smithing", "Intimidation",
      "Medicine", "Perception", "Diplomacy", "Construction", "Agility",
      "Navigation", "Foraging", "Tracking", "Persuasion", "Reflexes",
      "Brewing", "Taming", "Farming", "Hunting", "Trade",
      "Stealth", "Crafting", "Deception", "Thieving", "Speed">>

ESSENCE_ABILITIES ==
    <<"Arcanum", "Symbiosis", "Durabilis", "Equilibrio", "Sapien",
      "Metamorphosis">>

SLIDER_VALUES ==
    <<"Thinking Speed", "Learning Rate", "Inverse Metabolic Rate",
      "Inverse Sleep Cycle", "Memory">>

AbilityNames == Range(BASE_ABILITIES) \cup Range(ESSENCE_ABILITIES)

SliderNames == Range(SLIDER_VALUES)

\* The trait catalog, restricted to the traits the model offers for
\* selection.  Each entry is the source's entry: ability and slider weights
\* in hundredths, in the dict's order; Skillsets are the dict's keys.
TRAIT_MODIFIERS ==
    "Survivalist" :>
      [Abilities |-> <<<<"Resilience", 40>>, <<"Recovery", 35>>, <<"Willpower", 25>>>>,
       Sliders   |-> <<<<"Inverse Metabolic Rate", 50>>, <<"Inverse Sleep Cycle", 50>>>>,
       Skillsets |-> <<"Adrenaline Surge", "Wilderness Fortitude", "Brace", "Survivalist's Bond">>] @@
    "Juggernaut" :>
      [Abilities |-> <<<<"Strength", 70>>, <<"Resilience", 20>>, <<"Willpower", 10>>>>,
       Sliders   |-> <<>>,
       Skillsets |-> <<"Unstoppable Charge", "Ironhide", "Crushing Blow", "Juggernaut's Might">>] @@
    "Swiftfoot" :>
      [Abilities |-> <<<<"Speed", 50>>, <<"Agility", 45>>, <<"Reflexes", 5>>>>,
       Sliders   |-> <<<<"Thinking Speed", 1>>, <<"Inverse Metabolic Rate", -1>>>>,
       Skillsets |-> <<"Blinding Speed", "Acrobatic", "Swift Slash", "Swiftfoot's Agility">>] @@
    "Strategist" :>
      [Abilities |-> <<<<"Strategy", 50>>, <<"Perception", 30>>, <<"Willpower", 20>>>>,
       Sliders   |-> <<<<"Thinking Speed", 5>>, <<"Inverse Metabolic Rate", -5>>, <<"Inverse Sleep Cycle", -5>>, <<"Memory", 5>>>>,
       Skillsets |-> <<"Master Planner", "Commander's Presence", "Analytical Mind">>] @@
    "Diplomat" :>
      [Abilities |-> <<<<"Persuasion", 30>>, <<"Diplomacy", 70>>>>,
       Sliders   |-> <<>>,
       Skillsets |-> <<"Negotiation", "Friends in High Places", "Charisma">>] @@
    "Mercantile" :>
      [Abilities |-> <<<<"Trade", 100>>>>,
       Sliders   |-> <<>>,
       Skillsets |-> <<"Haggler's Instinct", "Market Opportunist", "Appraisal Expert">>] @@
    "Medic" :>
      [Abilities |-> <<<<"Medicine", 100>>>>,
       Sliders   |-> <<<<"Thinking Speed", 2>>, <<"Inverse Metabolic Rate", -6>>, <<"Inverse Sleep Cycle", -6>>, <<"Memory", 10>>>>,
       Skillsets |-> <<"Field Medic", "Long-Term Care", "Medical Knowledge">>] @@
    "Brewer" :>
      [Abilities |-> <<<<"Brewing", 100>>>>,
       Sliders   |-> <<>>,
       Skillsets |-> <<"Medicinal Brewing", "Mental Enhancement Brewing", "Physical Enhancement Brewing">>] @@
    "Wayfinder" :>
      [Abilities |-> <<<<"Navigation", 100>>>>,
       Sliders   |-> <<>>,
       Skillsets |-> <<"Celestial Clues", "Seafaring", "Pathfinder's Instinct">>] @@
    "Ironclad Will" :>
      [Abilities |-> <<<<"Durabilis", 60>>, <<"Willpower", 40>>>>,
       Sliders   |-> <<>>,
       Skillsets |-> <<"Unbreakable Will", "Pain is Power", "Stalwart Focus">>] @@
    "Phoenix's Flight" :>
      [Abilities |-> <<<<"Durabilis", 60>>, <<"Recovery", 40>>>>,
       Sliders   |-> <<>>,
       Skillsets |-> <<"Vital Forge", "Nectar of the Gods", "Enduring Embers">>] @@
    "Chimera's Gift" :>
      [Abilities |-> <<<<"Metamorphosis", 100>>>>,
       Sliders   |-> <<>>,
       Skillsets |-> <<"Adaptive Aperture", "Keen Scent", "Respiratory Shift", "Adaptive Camouflage", "Electroreception">>] @@
    "Prodigal Polymath" :>
      [Abilities |-> <<<<"Sapien", 50>>, <<"Metamorphosis", 10>>, <<"Intimidation", 10>>, <<"Perception", 10>>, <<"Diplomacy", 10>>, <<"Persuasion", 10>>>>,
       Sliders   |-> <<<<"Learning Rate", 10>>, <<"Inverse Metabolic Rate", -5>>, <<"Inverse Sleep Cycle", -5>>>>,
       Skillsets |-> <<"Tireless Mind", "Model Abstraction", "Self-Study", "Skip the Basics">>] @@
    "Homeostatic Healing [Requires: Medic]" :>
      [Abilities |-> <<<<"Equilibrio", 50>>, <<"Medicine", 30>>, <<"Recovery", 20>>>>,
       Sliders   |-> <<>>,
       Skillsets |-> <<"Equilibrium Surge", "Vital Flow Cleansing", "Resonant Rejuvenation">>] @@
    "Brewmaster [Requires: Brewer]" :>
      [Abilities |-> <<<<"Symbiosis", 50>>, <<"Brewing", 50>>>>,
       Sliders   |-> <<>>,
       Skillsets |-> <<"Alchemical Concoctions", "Arcane Brewing", "Medicinal Brewing", "Mental Enhancement Brewing", "Physical Enhancement Brewing">>]

\* The skillset catalog, restricted to the skillsets listed by the traits
\* above plus two listed by none of them; weights in hundredths.
SKILLSET_ABILITY_DEPENDENCE ==
    <<[name |-> "Adrenaline Surge",
       abilities |-> <<<<"Resilience", 30>>, <<"Recovery", 25>>, <<"Reflexes", 15>>, <<"Willpower", 15>>, <<"Strength", 15>>>>],
      [name |-> "Wilderness Fortitude",
       abilities |-> <<<<"Recovery", 40>>, <<"Resilience", 30>>, <<"Perception", 15>>, <<"Willpower", 15>>>>],
      [name |-> "Brace",
       abilities |-> <<<<"Strength", 30>>, <<"Resilience", 30>>, <<"Technique", 20>>, <<"Reflexes", 10>>, <<"Willpower", 10>>>>],
      [name |-> "Survivalist's Bond",
       abilities |-> <<<<"Recovery", 35>>, <<"Strength", 25>>, <<"Technique", 25>>, <<"Resilience", 15>>>>],
      [name |-> "Unstoppable Charge",
       abilities |-> <<<<"Strength", 40>>, <<"Speed", 30>>, <<"Agility", 15>>, <<"Resilience", 15>>>>],
      [name |-> "Ironhide",
       abilities |-> <<<<"Resilience", 50>>, <<"Recovery", 30>>, <<"Strength", 20>>>>],
      [name |-> "Crushing Blow",
       abilities |-> <<<<"Strength", 55>>, <<"Technique", 30>>, <<"Resilience", 15>>>>],
      [name |-> "Juggernaut's Might",
       abilities |-> <<<<"Strength", 35>>, <<"Resilience", 35>>, <<"Recovery", 15>>, <<"Technique", 15>>>>],
      [name |-> "Blinding Speed",
       abilities |-> <<<<"Speed", 50>>, <<"Agility", 30>>, <<"Reflexes", 20>>>>],
      [name |-> "Acrobatic",
       abilities |-> <<<<"Agility", 45>>, <<"Reflexes", 35>>, <<"Technique", 20>>>>],
      [name |-> "Swift Slash",
       abilities |-> <<<<"Technique", 40>>, <<"Speed", 30>>, <<"Reflexes", 30>>>>],
      [name |-> "Swiftfoot's Agility",
       abilities |-> <<<<"Agility", 55>>, <<"Reflexes", 25>>, <<"Speed", 20>>>>],
      [name |-> "Master Planner",
       abilities |-> <<<<"Strategy", 55>>, <<"Perception", 25>>, <<"Willpower", 20>>>>],
      [name |-> "Commander's Presence",
       abilities |-> <<<<"Persuasion", 40>>, <<"Diplomacy", 40>>, <<"Willpower", 20>>>>],
      [name |-> "Analytical Mind",
       abilities |-> <<<<"Perception", 55>>, <<"Strategy", 25>>, <<"Willpower", 20>>>>],
      [name |-> "Negotiation",
       abilities |-> <<<<"Diplomacy", 50>>, <<"Persuasion", 30>>, <<"Perception", 20>>>>],
      [name |-> "Friends in High Places",
       abilities |-> <<<<"Diplomacy", 50>>, <<"Persuasion", 40>>, <<"Perception", 10>>>>],
      [name |-> "Charisma",
       abilities |-> <<<<"Persuasion", 60>>, <<"Diplomacy", 20>>, <<"Deception", 20>>>>],
      [name |-> "Haggler's Instinct",
       abilities |-> <<<<"Trade", 45>>, <<"Persuasion", 35>>, <<"Perception", 20>>>>],
      [name |-> "Market Opportunist",
       abilities |-> <<<<"Trade", 40>>, <<"Strategy", 30>>, <<"Navigation", 20>>, <<"Perception", 10>>>>],
      [name |-> "Appraisal Expert",
       abilities |-> <<<<"Perception", 55>>, <<"Trade", 25>>, <<"Crafting", 20>>>>],
      [name |-> "Field Medic",
       abilities |-> <<<<"Technique", 25>>, <<"Medicine", 50>>, <<"Perception", 25>>>>],
      [name |-> "Long-Term Care",
       abilities |-> <<<<"Technique", 20>>, <<"Medicine", 40>>, <<"Willpower", 20>>, <<"Perception", 10>>, <<"Strategy", 10>>>>],
      [name |-> "Medical Knowledge",
       abilities |-> <<<<"Medicine", 70>>, <<"Perception", 15>>, <<"Strategy", 15>>>>],
      [name |-> "Medicinal Brewing",
       abilities |-> <<<<"Brewing", 50>>, <<"Medicine", 50>>>>],
      [name |-> "Mental Enhancement Brewing",
       abilities |-> <<<<"Brewing", 50>>, <<"Strategy", 50>>>>],
      [name |-> "Physical Enhancement Brewing",
       abilities |-> <<<<"Brewing", 60>>, <<"Strategy", 40>>>>],
      [name |-> "Celestial Clues",
       abilities |-> <<<<"Navigation", 50>>, <<"Perception", 30>>, <<"Strategy", 20>>>>],
      [name |-> "Seafaring",
       abilities |-> <<<<"Navigation", 60>>, <<"Perception", 25>>, <<"Strategy", 15>>>>],
      [name |-> "Pathfinder's Instinct",
       abilities |-> <<<<"Navigation", 40>>, <<"Perception", 40>>, <<"Tracking", 20>>>>],
      [name |-> "Equilibrium Surge",
       abilities |-> <<<<"Equilibrio", 60>>, <<"Recovery", 30>>, <<"Resilience", 10>>>>],
      [name |-> "Vital Flow Cleansing",
       abilities |-> <<<<"Equilibrio", 50>>, <<"Medicine", 30>>, <<"Willpower", 20>>>>],
      [name |-> "Resonant Rejuvenation",
       abilities |-> <<<<"Equilibrio", 50>>, <<"Recovery", 30>>, <<"Medicine", 20>>>>],
      [name |-> "Unbreakable Will",
       abilities |-> <<<<"Durabilis", 40>>, <<"Willpower", 60>>>>],
      [name |-> "Pain is Power",
       abilities |-> <<<<"Durabilis", 40>>, <<"Strength", 40>>, <<"Resilience", 20>>>>],
      [name |-> "Stalwart Focus",
       abilities |-> <<<<"Willpower", 65>>, <<"Durabilis", 25>>, <<"Strategy", 10>>>>],
      [name |-> "Vital Forge",
       abilities |-> <<<<"Durabilis", 50>>, <<"Recovery", 30>>, <<"Medicine", 20>>>>],
      [name |-> "Nectar of the Gods",
       abilities |-> <<<<"Durabilis", 40>>, <<"Medicine", 10>>, <<"Brewing", 10>>, <<"Resilience", 20>>, <<"Recovery", 20>>>>],
      [name |-> "Enduring Embers",
       abilities |-> <<<<"Durabilis", 50>>, <<"Resilience", 30>>, <<"Recovery", 20>>>>],
      [name |-> "Alchemical Concoctions",
       abilities |-> <<<<"Brewing", 50>>, <<"Crafting", 30>>, <<"Symbiosis", 20>>>>],
      [name |-> "Arcane Brewing",
       abilities |-> <<<<"Symbiosis", 20>>, <<"Arcanum", 40>>, <<"Brewing", 30>>, <<"Crafting", 10>>>>],
      [name |-> "Adaptive Aperture",
       abilities |-> <<<<"Metamorphosis", 40>>, <<"Perception", 50>>, <<"Technique", 10>>>>],
      [name |-> "Keen Scent",
       abilities |-> <<<<"Metamorphosis", 30>>, <<"Perception", 60>>, <<"Technique", 10>>>>],
      [name |-> "Respiratory Shift",
       abilities |-> <<<<"Metamorphosis", 40>>, <<"Recovery", 40>>, <<"Resilience", 20>>>>],
      [name |-> "Adaptive Camouflage",
       abilities |-> <<<<"Metamorphosis", 50>>, <<"Stealth", 30>>, <<"Perception", 20>>>>],
      [name |-> "Electroreception",
       abilities |-> <<<<"Metamorphosis", 30>>, <<"Perception", 60>>, <<"Technique", 10>>>>],
      [name |-> "Tireless Mind",
       abilities |-> <<<<"Sapien", 50>>, <<"Perception", 25>>, <<"Technique", 25>>>>],
      [name |-> "Model Abstraction",
       abilities |-> <<<<"Sapien", 60>>, <<"Strategy", 30>>, <<"Willpower", 10>>>>],
      [name |-> "Self-Study",
       abilities |-> <<<<"Sapien", 60>>, <<"Strategy", 30>>, <<"Willpower", 10>>>>],
      [name |-> "Skip the Basics",
       abilities |-> <<<<"Sapien", 50>>, <<"Strategy", 30>>, <<"Technique", 20>>>>]>>

SkillsetNames == {SKILLSET_ABILITY_DEPENDENCE[i].name :
                    i \in DOMAIN SKILLSET_ABILITY_DEPENDENCE}

\* get_date (src/Player.py:1963-1964)
CurrentYear == 885

CurrentMonth == 6

\* Player.get_age
get_age(birthdate) ==
    IF CurrentMonth < birthdate.Month
    THEN CurrentYear - birthdate.Year - 1
    ELSE CurrentYear - birthdate.Year

\* Player.compute_age_modifiers, tabulated in thousandths (rounded down) for
\* the ages the model uses: raw * late with raw the bell curve of
\* ABILITY_AGE_CURVES (every ability is listed there as "bell") and
\* late = exp(-0.08 * max(age - 120, 0)).
AgeModifierTable ==
    "Portaling" :> (18 :> 128 @@ 25 :> 180 @@ 44 :> 388 @@ 45 :> 402 @@ 119 :> 882 @@ 120 :> 871 @@ 130 :> 332 @@ 145 :> 69) @@
    "Strategy" :> (18 :> 0 @@ 25 :> 0 @@ 44 :> 11 @@ 45 :> 12 @@ 119 :> 1000 @@ 120 :> 999 @@ 130 :> 407 @@ 145 :> 78) @@
    "Fishing" :> (18 :> 187 @@ 25 :> 252 @@ 44 :> 489 @@ 45 :> 503 @@ 119 :> 817 @@ 120 :> 805 @@ 130 :> 299 @@ 145 :> 60) @@
    "Technique" :> (18 :> 331 @@ 25 :> 437 @@ 44 :> 758 @@ 45 :> 774 @@ 119 :> 375 @@ 120 :> 360 @@ 130 :> 103 @@ 145 :> 13) @@
    "Willpower" :> (18 :> 457 @@ 25 :> 561 @@ 44 :> 835 @@ 45 :> 847 @@ 119 :> 443 @@ 120 :> 429 @@ 130 :> 135 @@ 145 :> 21) @@
    "Resilience" :> (18 :> 980 @@ 25 :> 1000 @@ 44 :> 862 @@ 45 :> 849 @@ 119 :> 27 @@ 120 :> 25 @@ 130 :> 4 @@ 145 :> 0) @@
    "Recovery" :> (18 :> 999 @@ 25 :> 950 @@ 44 :> 558 @@ 45 :> 534 @@ 119 :> 0 @@ 120 :> 0 @@ 130 :> 0 @@ 145 :> 0) @@
    "Strength" :> (18 :> 888 @@ 25 :> 960 @@ 44 :> 967 @@ 45 :> 960 @@ 119 :> 56 @@ 120 :> 52 @@ 130 :> 11 @@ 145 :> 0) @@
    "Smithing" :> (18 :> 462 @@ 25 :> 588 @@ 44 :> 901 @@ 45 :> 913 @@ 119 :> 191 @@ 120 :> 181 @@ 130 :> 44 @@ 145 :> 4) @@
    "Intimidation" :> (18 :> 636 @@ 25 :> 706 @@ 44 :> 875 @@ 45 :> 882 @@ 119 :> 764 @@ 120 :> 754 @@ 130 :> 295 @@ 145 :> 68) @@
    "Medicine" :> (18 :> 319 @@ 25 :> 402 @@ 44 :> 662 @@ 45 :> 676 @@ 119 :> 704 @@ 120 :> 690 @@ 130 :> 247 @@ 145 :> 47) @@
    "Perception" :> (18 :> 178 @@ 25 :> 253 @@ 44 :> 537 @@ 45 :> 554 @@ 119 :> 589 @@ 120 :> 571 @@ 130 :> 182 @@ 145 :> 28) @@
    "Diplomacy" :> (18 :> 249 @@ 25 :> 300 @@ 44 :> 467 @@ 45 :> 477 @@ 119 :> 999 @@ 120 :> 999 @@ 130 :> 440 @@ 145 :> 122) @@
    "Construction" :> (18 :> 280 @@ 25 :> 372 @@ 44 :> 671 @@ 45 :> 687 @@ 119 :> 525 @@ 120 :> 508 @@ 130 :> 161 @@ 145 :> 25) @@
    "Agility" :> (18 :> 997 @@ 25 :> 986 @@ 44 :> 726 @@ 45 :> 706 @@ 119 :> 4 @@ 120 :> 3 @@ 130 :> 0 @@ 145 :> 0) @@
    "Navigation" :> (18 :> 423 @@ 25 :> 512 @@ 44 :> 764 @@ 45 :> 776 @@ 119 :> 646 @@ 120 :> 633 @@ 130 :> 224 @@ 145 :> 43) @@
    "Foraging" :> (18 :> 127 @@ 25 :> 189 @@ 44 :> 449 @@ 45 :> 466 @@ 119 :> 642 @@ 120 :> 624 @@ 130 :> 201 @@ 145 :> 31) @@
    "Tracking" :> (18 :> 606 @@ 25 :> 754 @@ 44 :> 997 @@ 45 :> 999 @@ 119 :> 33 @@ 120 :> 30 @@ 130 :> 4 @@ 145 :> 0) @@
    "Persuasion" :> (18 :> 67 @@ 25 :> 99 @@ 44 :> 245 @@ 45 :> 256 @@ 119 :> 980 @@ 120 :> 975 @@ 130 :> 401 @@ 145 :> 94) @@
    "Reflexes" :> (18 :> 945 @@ 25 :> 995 @@ 44 :> 867 @@ 45 :> 851 @@ 119 :> 10 @@ 120 :> 9 @@ 130 :> 1 @@ 145 :> 0) @@
    "Brewing" :> (18 :> 287 @@ 25 :> 378 @@ 44 :> 670 @@ 45 :> 685 @@ 119 :> 558 @@ 120 :> 542 @@ 130 :> 176 @@ 145 :> 28) @@
    "Taming" :> (18 :> 606 @@ 25 :> 726 @@ 44 :> 967 @@ 45 :> 974 @@ 119 :> 168 @@ 120 :> 160 @@ 130 :> 39 @@ 145 :> 4) @@
    "Farming" :> (18 :> 324 @@ 25 :> 411 @@ 44 :> 678 @@ 45 :> 692 @@ 119 :> 664 @@ 120 :> 649 @@ 130 :> 227 @@ 145 :> 42) @@
    "Hunting" :> (18 :> 706 @@ 25 :> 815 @@ 44 :> 993 @@ 45 :> 996 @@ 119 :> 143 @@ 120 :> 135 @@ 130 :> 33 @@ 145 :> 3) @@
    "Trade" :> (18 :> 76 @@ 25 :> 126 @@ 44 :> 375 @@ 45 :> 393 @@ 119 :> 546 @@ 120 :> 526 @@ 130 :> 153 @@ 145 :> 19) @@
    "Stealth" :> (18 :> 566 @@ 25 :> 706 @@ 44 :> 980 @@ 45 :> 986 @@ 119 :> 71 @@ 120 :> 65 @@ 130 :> 12 @@ 145 :> 0) @@
    "Crafting" :> (18 :> 324 @@ 25 :> 432 @@ 44 :> 763 @@ 45 :> 779 @@ 119 :> 339 @@ 120 :> 324 @@ 130 :> 89 @@ 145 :> 11) @@
    "Deception" :> (18 :> 531 @@ 25 :> 636 @@ 44 :> 893 @@ 45 :> 903 @@ 119 :> 375 @@ 120 :> 362 @@ 130 :> 110 @@ 145 :> 16) @@
    "Thieving" :> (18 :> 882 @@ 25 :> 988 @@ 44 :> 726 @@ 45 :> 696 @@ 119 :> 0 @@ 120 :> 0 @@ 130 :> 0 @@ 145 :> 0) @@
    "Speed" :> (18 :> 961 @@ 25 :> 1000 @@ 44 :> 749 @@ 45 :> 726 @@ 119 :> 0 @@ 120 :> 0 @@ 130 :> 0 @@ 145 :> 0) @@
    "Arcanum" :> (18 :> 421 @@ 25 :> 478 @@ 44 :> 641 @@ 45 :> 649 @@ 119 :> 991 @@ 120 :> 989 @@ 130 :> 431 @@ 145 :> 119) @@
    "Symbiosis" :> (18 :> 486 @@ 25 :> 556 @@ 44 :> 745 @@ 45 :> 754 @@ 119 :> 889 @@ 120 :> 882 @@ 130 :> 359 @@ 145 :> 88) @@
    "Durabilis" :> (18 :> 702 @@ 25 :> 782 @@ 44 :> 950 @@ 45 :> 955 @@ 119 :> 498 @@ 120 :> 486 @@ 130 :> 168 @@ 145 :> 31) @@
    "Equilibrio" :> (18 :> 367 @@ 25 :> 425 @@ 44 :> 597 @@ 45 :> 606 @@ 119 :> 990 @@ 120 :> 988 @@ 130 :> 428 @@ 145 :> 117) @@
    "Sapien" :> (18 :> 584 @@ 25 :> 661 @@ 44 :> 853 @@ 45 :> 861 @@ 119 :> 726 @@ 120 :> 715 @@ 130 :> 272 @@ 145 :> 60) @@
    "Metamorphosis" :> (18 :> 776 @@ 25 :> 856 @@ 44 :> 991 @@ 45 :> 993 @@ 119 :> 308 @@ 120 :> 298 @@ 130 :> 92 @@ 145 :> 14)

compute_age_modifiers(ability, age) == AgeModifierTable[ability][age]

\* Player.compute_slider_age_modifiers, tabulated in thousandths (rounded
\* down) for the same ages: the PCHIP interpolants _lr_interp, _imr_interp,
\* _mem_interp and age / 145, clipped to [0, 1].
SliderAgeModifierTable ==
    "Thinking Speed" :> (18 :> 810 @@ 25 :> 882 @@ 44 :> 999 @@ 45 :> 1000 @@ 119 :> 707 @@ 120 :> 700 @@ 130 :> 506 @@ 145 :> 0) @@
    "Learning Rate" :> (18 :> 726 @@ 25 :> 672 @@ 44 :> 575 @@ 45 :> 571 @@ 119 :> 306 @@ 120 :> 300 @@ 130 :> 202 @@ 145 :> 0) @@
    "Inverse Metabolic Rate" :> (18 :> 16 @@ 25 :> 2 @@ 44 :> 83 @@ 45 :> 90 @@ 119 :> 762 @@ 120 :> 771 @@ 130 :> 861 @@ 145 :> 1000) @@
    "Inverse Sleep Cycle" :> (18 :> 124 @@ 25 :> 172 @@ 44 :> 303 @@ 45 :> 310 @@ 119 :> 820 @@ 120 :> 827 @@ 130 :> 896 @@ 145 :> 1000) @@
    "Memory" :> (18 :> 810 @@ 25 :> 882 @@ 44 :> 999 @@ 45 :> 1000 @@ 119 :> 707 @@ 120 :> 700 @@ 130 :> 506 @@ 145 :> 0)


compute_slider_age_modifiers(slider_name, age) ==
    IF slider_name \in DOMAIN SliderAgeModifierTable
    THEN SliderAgeModifierTable[slider_name][age]
    ELSE 500

\* ------------------------------------------------------------------------
\* Genetic-modifier tables.  GENETIC_MODIFIERS is unpickled from
\* genetic_modifiers.pkl (src/Player.py:140-142), which is not part of the
\* sources: the table is an input of the model, drawn from GeneticTables.
\* An entry is <<floor_mod, ceil_mod>> in whole points.
\* ------------------------------------------------------------------------
\* the ability tied to each marker letter (src/Player.py:14, 2854-2863)
EssenceOfMarker ==
    ("A" :> "Arcanum") @@ ("D" :> "Durabilis") @@ ("E" :> "Equilibrio")
    @@ ("I" :> "Sapien") @@ ("B" :> "Symbiosis") @@ ("M" :> "Metamorphosis")

\* a table with no entry at all: the genetic stage changes nothing
GeneTableEmpty == [a \in {} |-> <<>>]

\* a lineage table: a marker lifts its own essence ability, lifts the other
\* essence abilities a little, and trades floor for ceiling elsewhere
GeneTableLineage ==
    [a \in AbilityNames |->
        [g \in UpperLetters |->
            IF a = EssenceOfMarker[g] THEN <<2, 8>>
            ELSE IF a \in Range(ESSENCE_ABILITIES) THEN <<0, 1>>
            ELSE <<-1, 3>>]]

GeneticTables == <<GeneTableEmpty, GeneTableLineage>>

\* a table in which every marker costs every ability 4 points of floor for
\* 1 point of ceiling
GeneTableCostly ==
    [a \in AbilityNames |-> [g \in UpperLetters |-> <<-4, 1>>]]

\* ------------------------------------------------------------------------
\* Genetic stage (src/Player.py:2483-2508)
\* ------------------------------------------------------------------------
\* a marker loop body that gives every marker the single weight
GeneticStepSingle(ability_range, ability_name, marker, table) ==
    LET gene == upper(marker) IN
    IF ability_name \in DOMAIN table /\ gene \in DOMAIN table[ability_name]
    THEN LET mods == table[ability_name][gene]
         IN boundary_check([ability_range EXCEPT
                              !.floor = @ + mods[1] * 1000,
                              !.ceiling = @ + mods[2] * 1000])
    ELSE ability_range

\* the body of the marker loop for one ability and one marker
GeneticStep(ability_range, ability_name, marker, table) ==
    LET gene == upper(marker) IN
    IF ability_name \in DOMAIN table /\ gene \in DOMAIN table[ability_name]
    THEN LET mods == table[ability_name][gene]
             k == IF isupper(marker) THEN 2 ELSE 1
         IN boundary_check([ability_range EXCEPT
                              !.floor = @ + mods[1] * k * 1000,
                              !.ceiling = @ + mods[2] * k * 1000])
    ELSE ability_range

RECURSIVE GeneticLoop(_, _, _, _)
GeneticLoop(ability_range, ability_name, markers, table) ==
    IF markers = <<>> THEN ability_range
    ELSE Then(GeneticStep(ability_range, ability_name, Head(markers), table),
              LAMBDA r : GeneticLoop(r, ability_name, Tail(markers), table))

\* Player.genetically_alter_abilities
genetically_alter_abilities(abils, markers, table) ==
    [a \in DOMAIN abils |-> GeneticLoop(abils[a], a, markers, table)]

\* ------------------------------------------------------------------------
\* Somatic stage (src/Player.py:2238-2357, 2388-2418)
\* ------------------------------------------------------------------------
\* the three factors of compute_size_modifiers, in thousandths
height_factor(size) ==
    Clamp((13000 * size.Height - 923520) \div 12, -20000, 20000)

weight_factor(size) == Clamp((size.Weight - 175) * 200, -20000, 20000)

\* weight_kg / height_meters ** 2 = 703.069 * lb / in^2, in thousandths
bmi(size) == (size.Weight * 703069) \div (size.Height * size.Height)

bmi_factor(size) == Clamp(((bmi(size) - 24400) * 4) \div 3, -20000, 20000)

\* abs(height_feet - 5.92) < 0.01 and abs(weight_pounds - 175) < 1
IsNeutralSize(size) ==
    /\ Abs(100 * size.Height - 7104) < 12
    /\ Abs(size.Weight - 175) < 1

\* Player.compute_size_modifiers: <<floor_modifier, ceiling_modifier>> in
\* whole points; the coefficients are in tenths, hence the divisor 10000.
compute_size_modifiers(size, ability_name) ==
    LET h == height_factor(size)
        w == weight_factor(size)
        b == bmi_factor(size)
    IN
    IF IsNeutralSize(size) THEN <<0, 0>>
    ELSE CASE ability_name = "Strength" ->
                <<RoundDiv(7 * h + 3 * Max2(0, w), 10000),
                  RoundDiv(4 * h + 6 * w, 10000)>>
           [] ability_name = "Speed" ->
                <<RoundDiv(-6 * Max2(0, w) - 4 * Abs(b), 10000),
                  RoundDiv(4 * Min2(h, 10000) - 7 * Max2(0, w) - 3 * Abs(b), 10000)>>
           [] ability_name = "Agility" ->
                <<RoundDiv(-5 * Max2(0, h) - 5 * Max2(0, b), 10000),
                  RoundDiv(-4 * h - 7 * Max2(0, b) + 3 * Min2(0, w), 10000)>>
           [] ability_name = "Reflexes" ->
                <<RoundDiv(-8 * h - 2 * Abs(b), 10000),
                  RoundDiv(-7 * h - 3 * Abs(b) + Min2(0, w), 10000)>>
           [] ability_name = "Resilience" ->
                <<RoundDiv(5 * Min2(b, 5000) + 2 * Min2(h, 5000)
                             - 4 * Max2(w - 5000, 0), 10000),
                  RoundDiv(-4 * Abs(b - 2000) + 3 * Min2(h, 8000)
                             - 5 * Max2(w - 5000, 0), 10000)>>
           [] ability_name = "Recovery" ->
                <<RoundDiv(-6 * Abs(b - 2000) - 3 * Abs(w), 10000),
                  RoundDiv(-5 * Abs(b - 2000) + 2 * Min2(h, 5000) - 2 * Abs(w), 10000)>>
           [] ability_name = "Stealth" ->
                <<RoundDiv(-6 * Max2(0, h) - 4 * Max2(0, w), 10000),
                  RoundDiv(-5 * h - 5 * w, 10000)>>
           [] ability_name = "Intimidation" ->
                <<RoundDiv(6 * h + 4 * Max2(0, w), 10000),
                  RoundDiv(7 * h + 3 * w, 10000)>>
           [] OTHER -> <<0, 0>>

\* a slider normalisation whose neutral weight is 150 lb
size_alter_sliders_neutral150(size, slider_name) ==
    IF slider_name = "Inverse Metabolic Rate"
    THEN LET h_norm == Clamp(IF size.Height <= 71
                             THEN ((size.Height - 71) * 1000000) \div (71 - 51)
                             ELSE ((size.Height - 71) * 1000000) \div (90 - 71),
                             -1000000, 1000000)
             w_norm == Clamp(IF size.Weight <= 150
                             THEN ((size.Weight - 150) * 1000000) \div (150 - 70)
                             ELSE ((size.Weight - 150) * 1000000) \div (500 - 150),
                             -1000000, 1000000)
         IN -((h_norm + w_norm) \div 1000)
    ELSE 0

\* Player.size_alter_sliders: the delta in hundredths of a slider point;
\* h_norm and w_norm are in millionths.
size_alter_sliders(size, slider_name) ==
    IF slider_name = "Inverse Metabolic Rate"
    THEN LET h_norm == Clamp(IF size.Height <= 71
                             THEN ((size.Height - 71) * 1000000) \div (71 - 51)
                             ELSE ((size.Height - 71) * 1000000) \div (90 - 71),
                             -1000000, 1000000)
             w_norm == Clamp(IF size.Weight <= 175
                             THEN ((size.Weight - 175) * 1000000) \div (175 - 70)
                             ELSE ((size.Weight - 175) * 1000000) \div (500 - 175),
                             -1000000, 1000000)
         IN -((h_norm + w_norm) \div 1000)
    ELSE 0

\* Player.size_alter_abilities, the ability loop
SizeAlterAbilityRanges(abils, size) ==
    [a \in DOMAIN abils |->
        LET mods == compute_size_modifiers(size, a)
        IN boundary_check([abils[a] EXCEPT !.floor = @ + mods[1] * 1000,
                                           !.ceiling = @ + mods[2] * 1000])]

\* Player.size_alter_abilities, the slider loop
SizeAlterSliderRanges(sliders, size) ==
    [s \in DOMAIN sliders |->
        [sliders[s] EXCEPT !.current = @ + size_alter_sliders(size, s)]]

\* ------------------------------------------------------------------------
\* Trait stage (src/Player.py:2535-2562)
\* ------------------------------------------------------------------------
k_slider == 30

k_ability == 10

\* an order that takes the essence traits first
TraitListEssenceFirst(sel) ==
    sel.essence_traits_choice \o
    <<sel.physical_trait, sel.mental_trait, sel.social_trait,
      sel.livelihood_trait, sel.travel_trait>>

\* the nine selected trait keys in the order both loops use
\* (src/Player.py:2154-2155, 2546)
TraitList(sel) ==
    <<sel.physical_trait, sel.mental_trait, sel.social_trait,
      sel.livelihood_trait, sel.travel_trait>> \o sel.essence_traits_choice

\* a loop body that lifts the ceiling to the new current value instead of
\* logging an overflow
TraitAbilityStepLiftCeiling(p, trait, ability_name, ability_mods) ==
    LET d == ability_mods * k_ability * 10
        r == p.abilities[ability_name]
        cur == r.current + d
    IN [p EXCEPT !.abilities[ability_name] =
            boundary_check(AttributeRange(r.floor + d, Max2(r.ceiling, cur), cur))]

\* the body of the ability loop for one (ability_name, ability_mods) of a
\* trait; p is the Player.  An overflow entry is
\* <<amount in thousandths, trait, ability>>; ability_mods is in hundredths.
TraitAbilityStep(p, trait, ability_name, ability_mods) ==
    LET d == ability_mods * k_ability * 10
        r == p.abilities[ability_name]
        cur == r.current + d
        over == cur > r.ceiling
        r2 == IF over
              THEN AttributeRange(r.ceiling, r.ceiling, r.ceiling)
              ELSE AttributeRange(r.floor + d, r.ceiling, cur)
    IN [p EXCEPT !.abilities[ability_name] = boundary_check(r2),
                 !.skill_init_overflow = IF over
                              THEN Append(@, <<cur - r.ceiling, trait, ability_name>>)
                              ELSE @]

RECURSIVE TraitAbilityLoop(_, _, _)
TraitAbilityLoop(p, trait, mods) ==
    IF mods = <<>> THEN p
    ELSE Then(TraitAbilityStep(p, trait, Head(mods)[1], Head(mods)[2]),
              LAMBDA q : TraitAbilityLoop(q, trait, Tail(mods)))

\* the body of the slider loop for one (slider_name, slider_mod) of a trait
TraitSliderStep(p, slider_name, slider_mod) ==
    [p EXCEPT !.gameplay_sliders[slider_name].current = @ + slider_mod * k_slider]

RECURSIVE TraitSliderLoop(_, _)
TraitSliderLoop(p, mods) ==
    IF mods = <<>> THEN p
    ELSE Then(TraitSliderStep(p, Head(mods)[1], Head(mods)[2]),
              LAMBDA q : TraitSliderLoop(q, Tail(mods)))

\* the body of the trait loop for one selected trait key
ImposeTrait(p, trait) ==
    IF trait \in DOMAIN TRAIT_MODIFIERS
    THEN Then(TraitAbilityLoop(p, trait, TRAIT_MODIFIERS[trait].Abilities),
              LAMBDA q : TraitSliderLoop(q, TRAIT_MODIFIERS[trait].Sliders))
    ELSE p

\* Player.impose_trait_ability_modifiers
RECURSIVE impose_trait_ability_modifiers(_, _)
impose_trait_ability_modifiers(p, traits) ==
    IF traits = <<>> THEN p
    ELSE Then(ImposeTrait(p, Head(traits)),
              LAMBDA q : impose_trait_ability_modifiers(q, Tail(traits)))

\* ------------------------------------------------------------------------
\* Slider rebase and chronological stage (src/Player.py:2578-2581,
\* 2420-2428, 2458-2466)
\* ------------------------------------------------------------------------
\* a rebase around the baseline value 50 instead of the current value
SliderRebaseBaseline(sliders) ==
    [s \in DOMAIN sliders |->
        [sliders[s] EXCEPT !.floor = 4000, !.ceiling = 6000]]

\* the slider loop of initialize_abilities: +-10 points around current
SliderRebase(sliders) ==
    [s \in DOMAIN sliders |->
        [sliders[s] EXCEPT !.floor = sliders[s].current - 1000,
                           !.ceiling = sliders[s].current + 1000]]

\* floor + mod_factor * (ceiling - floor), mod_factor in thousandths
AgeBlend(r, mod_factor) ==
    r.floor + (mod_factor * (r.ceiling - r.floor)) \div 1000

\* Player.age_alter_abilities
age_alter_abilities(abils, age) ==
    [a \in DOMAIN abils |->
        [abils[a] EXCEPT !.current = AgeBlend(abils[a], compute_age_modifiers(a, age))]]

\* Player.age_alter_sliders
age_alter_sliders(sliders, age) ==
    [s \in DOMAIN sliders |->
        [sliders[s] EXCEPT
            !.current = AgeBlend(sliders[s], compute_slider_age_modifiers(s, age))]]

\* the baseline of Player.initialize_abilities
BaselineAbilities == [a \in AbilityNames |-> AttributeRange(0, 1000, 0)]

BaselineSliders == [s \in SliderNames |-> AttributeRange(100, 9900, 5000)]

\* ------------------------------------------------------------------------
\* Skill seeding: Player.initialize_skillsets (src/Player.py:2071-2236)
\* xp is kept in whole points (the float amounts are floored).
\* ------------------------------------------------------------------------
TRAIT_XP == 500000

OVERFULL_XP_MULTIPLER == 2500

\* Step 1: one fresh Skillset per catalog entry
FreshSkillsets == [k \in SkillsetNames |-> NewSkillset]

\* trait_to_skillsets[trait]
trait_to_skillsets(cat, trait) == cat.TRAIT_MODIFIERS[trait].Skillsets

InSeq(x, s) == \E i \in DOMAIN s : s[i] = x

\* the (ability, weight) pairs of a dependency whose ability the player has
ValidDependencies(dep, abils) ==
    SelectSeq(dep, LAMBDA pr : pr[1] \in DOMAIN abils)

RECURSIVE WeightSum(_)
WeightSum(dep) ==
    IF dep = <<>> THEN 0 ELSE Head(dep)[2] + WeightSum(Tail(dep))

RECURSIVE WeightedSum(_, _)
WeightedSum(dep, abils) ==
    IF dep = <<>> THEN 0
    ELSE abils[Head(dep)[1]].current * Head(dep)[2] + WeightedSum(Tail(dep), abils)

\* a mean that takes the first valid ability's current value when the
\* weights sum to zero
weighted_mean_unguarded(dep, abils) ==
    LET valid == ValidDependencies(dep, abils)
        total_weight == WeightSum(valid)
    IN IF total_weight > 0 THEN WeightedSum(valid, abils) \div total_weight
       ELSE abils[valid[1][1]].current

\* weighted_mean of Step 2, in thousandths of a point
weighted_mean(dep, abils) ==
    LET valid == ValidDependencies(dep, abils)
        total_weight == WeightSum(valid)
    IN IF total_weight > 0 THEN WeightedSum(valid, abils) \div total_weight ELSE 0

\* Step 3: the selected traits that list the skillset, in selection order
traits_with_skillset(cat, traits, skillset_name) ==
    SelectSeq(traits, LAMBDA t : /\ t \in DOMAIN cat.TRAIT_MODIFIERS
                                 /\ InSeq(skillset_name, cat.TRAIT_MODIFIERS[t].Skillsets))

\* an xp_init that hands the whole TRAIT_XP pool to every skillset of the
\* trait instead of the pool's share
xp_init_whole_pool(cat, sliders, mean_k, trait) ==
    LET learning_rate_h == IF "Learning Rate" \in DOMAIN sliders
                           THEN sliders["Learning Rate"].current
                           ELSE 5000
    IN (learning_rate_h * mean_k) \div (1000000000 \div TRAIT_XP)

\* xp_init = learning_rate * normalized_score * xp_pool_per_skill, with
\* learning_rate = current/100 (current in hundredths), normalized_score =
\* weighted_mean/100 (mean in thousandths), xp_pool_per_skill = TRAIT_XP / count
xp_init(cat, sliders, mean_k, trait) ==
    LET trait_skillset_count == Len(cat.TRAIT_MODIFIERS[trait].Skillsets)
        learning_rate_h == IF "Learning Rate" \in DOMAIN sliders
                           THEN sliders["Learning Rate"].current
                           ELSE 5000
    IN IF trait_skillset_count > 0
       THEN (learning_rate_h * mean_k)
                \div ((1000000000 \div TRAIT_XP) * trait_skillset_count)
       ELSE 0

\* the d_xp values Steps 2-3 pass to increment_xp for one skillset
BaseDeltas(cat, dep, abils, sliders, traits) ==
    IF ValidDependencies(dep.abilities, abils) = <<>> THEN <<>>
    ELSE LET mean_k == weighted_mean(dep.abilities, abils)
             tw == traits_with_skillset(cat, traits, dep.name)
         IN [i \in DOMAIN tw |-> xp_init(cat, sliders, mean_k, tw[i])]

\* Step 4: the traits of the overflow log in order of first appearance (the
\* insertion order of the trait_overflow dict)
RECURSIVE OverflowTraits(_, _)
OverflowTraits(log, seen) ==
    IF log = <<>> THEN seen
    ELSE OverflowTraits(Tail(log),
                        IF InSeq(Head(log)[2], seen) THEN seen
                        ELSE Append(seen, Head(log)[2]))

RECURSIVE total_overflow(_, _)
total_overflow(log, trait) ==
    IF log = <<>> THEN 0
    ELSE (IF Head(log)[2] = trait THEN Head(log)[1] ELSE 0)
         + total_overflow(Tail(log), trait)

\* an overflow split among all the Skillset objects, whatever the trait lists
trait_skillsets_every(cat, trait) ==
    IF trait \in DOMAIN cat.TRAIT_MODIFIERS
    THEN DOMAIN cat.SkillsetIndex
    ELSE {}

\* the names of the Skillset objects that belong to the trait
trait_skillsets(cat, trait) ==
    IF trait \in DOMAIN cat.TRAIT_MODIFIERS
    THEN {k \in Range(trait_to_skillsets(cat, trait)) : k \in DOMAIN cat.SkillsetIndex}
    ELSE {}

\* an overflow share that gives every skillset of the trait the whole amount
overflow_xp_undivided(cat, log, trait) ==
    (total_overflow(log, trait) * OVERFULL_XP_MULTIPLER) \div 1000

\* overflow_xp_per_skillset (total in thousandths of a point)
overflow_xp_per_skillset(cat, log, trait) ==
    (total_overflow(log, trait) * OVERFULL_XP_MULTIPLER)
        \div (1000 * Cardinality(trait_skillsets(cat, trait)))

RECURSIVE IncrementAll(_, _)
IncrementAll(skillset, deltas) ==
    IF deltas = <<>> THEN skillset
    ELSE Then(increment_xp(skillset, Head(deltas)),
              LAMBDA s : IncrementAll(s, Tail(deltas)))

\* the catalog position of each skillset name
RECURSIVE IndexFrom(_, _)
IndexFrom(dependence, i) ==
    IF i > Len(dependence) THEN <<>>
    ELSE (dependence[i].name :> i) @@ IndexFrom(dependence, i + 1)

SkillsetIndex == IndexFrom(SKILLSET_ABILITY_DEPENDENCE, 1)

\* the module tables initialize_skillsets reads
Catalog ==
    [TRAIT_MODIFIERS |-> TRAIT_MODIFIERS,
     SKILLSET_ABILITY_DEPENDENCE |-> SKILLSET_ABILITY_DEPENDENCE,
     SkillsetIndex |-> SkillsetIndex]

DependencyOf(cat, skillset_name) ==
    cat.SKILLSET_ABILITY_DEPENDENCE[cat.SkillsetIndex[skillset_name]]

\* Steps 1-3: every skillset created and given its base XP
BaseSkillsets(cat, abils, sliders, traits) ==
    [k \in DOMAIN cat.SkillsetIndex |->
        IncrementAll(NewSkillset,
                     BaseDeltas(cat, DependencyOf(cat, k), abils, sliders, traits))]

\* Step 4, the body of the loop over trait_overflow for one trait
ApplyOverflow(cat, skillsets, log, trait) ==
    LET members == trait_skillsets(cat, trait) IN
    IF members = {} THEN skillsets
    ELSE LET d_xp == overflow_xp_per_skillset(cat, log, trait) IN
         [k \in DOMAIN skillsets |->
             IF k \in members THEN increment_xp(skillsets[k], d_xp)
             ELSE skillsets[k]]

RECURSIVE OverflowLoop(_, _, _, _)
OverflowLoop(cat, skillsets, log, traits) ==
    IF traits = <<>> THEN skillsets
    ELSE Then(ApplyOverflow(cat, skillsets, log, Head(traits)),
              LAMBDA s : OverflowLoop(cat, s, log, Tail(traits)))

\* Steps 1-4 over the tables cat: the skillsets they leave
SeedSkillsets(cat, abils, sliders, log, traits) ==
    OverflowLoop(cat, BaseSkillsets(cat, abils, sliders, traits), log,
                 OverflowTraits(log, <<>>))

\* Player.initialize_skillsets: the skillsets it leaves
initialize_skillsets(abils, sliders, log, traits) ==
    SeedSkillsets(Catalog, abils, sliders, log, traits)

\* the increment_xp calls it makes, as <<skillset, d_xp>> in call order:
\* Steps 2-3 skillset by skillset, then Step 4 trait by trait
RECURSIVE Flatten(_)
Flatten(ss) == IF ss = <<>> THEN <<>> ELSE Head(ss) \o Flatten(Tail(ss))

SeedCalls(abils, sliders, log, traits) ==
    LET base(i) == LET dep == SKILLSET_ABILITY_DEPENDENCE[i]
                       ds == BaseDeltas(Catalog, dep, abils, sliders, traits)
                   IN [j \in DOMAIN ds |-> <<dep.name, ds[j]>>]
        ots == OverflowTraits(log, <<>>)
        names == [i \in DOMAIN SKILLSET_ABILITY_DEPENDENCE |->
                     SKILLSET_ABILITY_DEPENDENCE[i].name]
        over(t) == LET members == trait_skillsets(Catalog, ots[t])
                       ks == SelectSeq(names, LAMBDA k : k \in members)
                   IN [j \in DOMAIN ks |->
                          <<ks[j], overflow_xp_per_skillset(Catalog, log, ots[t])>>]
    IN Flatten([i \in DOMAIN SKILLSET_ABILITY_DEPENDENCE |-> base(i)])
       \o Flatten([t \in DOMAIN ots |-> over(t)])

\* ------------------------------------------------------------------------
\* State
\* ------------------------------------------------------------------------
VARIABLES
    GENETIC_MODIFIERS,   \* the table loaded from genetic_modifiers.pkl
    args,                \* the arguments of the Player constructor call
    player,              \* the Player object (st.session_state.player in the UI)
    pc,                  \* position inside Player.__init__
    cursor,              \* <<trait index, ability index>> of the trait loops
    construction,        \* how many times the constructor has been entered
    first_player,        \* history: the Player the first construction left
    calls,               \* history: the increment_xp calls made so far (one
                         \* Skillset) or by the last step (a Player)
    session_state,       \* st.session_state selections
    current_save_data,   \* st.session_state["current_save_data"]
    download,            \* the last downloaded save file
    saved_character,     \* history: the Player as it was at the download
    xp_clicks,           \* history: Apply XP clicks on the current Player
    ability_range,       \* an AttributeRange handed to boundary_check
    skill,               \* a single Skillset
    profile              \* a Genetics object

vars == <<GENETIC_MODIFIERS, args, player, pc, cursor, construction,
          first_player, calls, session_state, current_save_data, download,
          saved_character, xp_clicks, ability_range, skill, profile>>

\* a key absent from st.session_state, an object not created yet
Missing == [missing |-> TRUE]

\* ------------------------------------------------------------------------
\* Player.__init__ stage by stage (src/Player.py:2051-2069, 2564-2581)
\* ------------------------------------------------------------------------
\* the overflow list as a class attribute would share it between Players
SharedOverflow ==
    IF player = Missing THEN <<>> ELSE player.skill_init_overflow

\* self.skill_init_overflow["Overflow Points"] as __init__ sets it
FreshOverflow == <<>>

\* the field assignments of Player.__init__ (lines 2052-2066)
PlayerFields(a) ==
    [genetics              |-> a.genetics,
     physical_trait        |-> a.physical_trait,
     mental_trait          |-> a.mental_trait,
     social_trait          |-> a.social_trait,
     livelihood_trait      |-> a.livelihood_trait,
     travel_trait          |-> a.travel_trait,
     essence_traits_choice |-> a.essence_traits_choice,
     size                  |-> a.size,
     birthdate             |-> a.birthdate,
     eye_color             |-> a.eye_color,
     abilities             |-> <<>>,
     gameplay_sliders      |-> <<>>,
     skill_init_overflow   |-> FreshOverflow,
     skillsets             |-> <<>>]

\* initialize_abilities, the three baseline loops
BaselineStage(p) ==
    [p EXCEPT !.abilities = BaselineAbilities,
              !.gameplay_sliders = BaselineSliders]

GeneticStage(p, table) ==
    [p EXCEPT !.abilities =
        genetically_alter_abilities(@, get_markers(p.genetics), table)]

\* Player.size_alter_abilities
SomaticStage(p) ==
    [p EXCEPT !.abilities = SizeAlterAbilityRanges(@, p.size),
              !.gameplay_sliders = SizeAlterSliderRanges(@, p.size)]

TraitStage(p) == impose_trait_ability_modifiers(p, TraitList(p))

RebaseStage(p) == [p EXCEPT !.gameplay_sliders = SliderRebase(@)]

AgeAbilitiesStage(p) ==
    [p EXCEPT !.abilities = age_alter_abilities(@, get_age(p.birthdate))]

SeedStage(p) ==
    [p EXCEPT !.skillsets =
        initialize_skillsets(p.abilities, p.gameplay_sliders,
                             p.skill_init_overflow, TraitList(p))]

AgeSlidersStage(p) ==
    [p EXCEPT !.gameplay_sliders = age_alter_sliders(@, get_age(p.birthdate))]

\* Player.initialize_abilities
initialize_abilities(p, table) ==
    Then(BaselineStage(p), LAMBDA p1 :
    Then(GeneticStage(p1, table), LAMBDA p2 :
    Then(SomaticStage(p2), LAMBDA p3 :
    Then(TraitStage(p3), LAMBDA p4 :
    Then(RebaseStage(p4), LAMBDA p5 : AgeAbilitiesStage(p5))))))

\* Player(...) up to the return of initialize_skillsets
SeededPlayer(a, table) ==
    Then(initialize_abilities(PlayerFields(a), table), LAMBDA p6 : SeedStage(p6))

\* Player(...): the whole constructor
Player(a, table) ==
    Then(SeededPlayer(a, table), LAMBDA p7 : AgeSlidersStage(p7))

\* ------------------------------------------------------------------------
\* Constructor inputs of the Player specification
\* ------------------------------------------------------------------------
\* preset-expression Genetics objects
GeneticsChoices ==
    {GeneticsInit(<<"B", "e", "d">>, <<"E", "b", "d">>, <<"B", "b", "b">>,
                  TRUE, <<1, 1, 1>>),
     GeneticsInit(<<"D", "a", "m">>, <<"I", "e", "b">>, <<"A", "a", "a">>,
                  TRUE, <<1, 1, 1>>)}

\* the form default, the neutral size, a heavy and a small build
SizeChoices ==
    {[Height |-> 66, Weight |-> 150], [Height |-> 71, Weight |-> 175],
     [Height |-> 72, Weight |-> 300], [Height |-> 51, Weight |-> 70]}

\* ages 25, 44 and 120
BirthdateChoices ==
    {[Year |-> 860, Month |-> 1], [Year |-> 840, Month |-> 7],
     [Year |-> 765, Month |-> 1]}

TraitChoices ==
    {[physical_trait |-> "Survivalist", mental_trait |-> "Strategist",
      social_trait |-> "Diplomat", livelihood_trait |-> "Mercantile",
      travel_trait |-> "Wayfinder",
      essence_traits_choice |-> <<"Ironclad Will", "Phoenix's Flight",
                                  "Chimera's Gift", "Prodigal Polymath">>],
     [physical_trait |-> "Swiftfoot", mental_trait |-> "Strategist",
      social_trait |-> "Diplomat", livelihood_trait |-> "Medic",
      travel_trait |-> "Wayfinder",
      essence_traits_choice |-> <<"Homeostatic Healing [Requires: Medic]",
                                  "Ironclad Will", "Phoenix's Flight",
                                  "Chimera's Gift">>],
     [physical_trait |-> "Juggernaut", mental_trait |-> "Strategist",
      social_trait |-> "Diplomat", livelihood_trait |-> "Mercantile",
      travel_trait |-> "Wayfinder",
      essence_traits_choice |-> <<"Prodigal Polymath", "Ironclad Will",
                                  "Phoenix's Flight", "Chimera's Gift">>],
     [physical_trait |-> "Survivalist", mental_trait |-> "Strategist",
      social_trait |-> "Diplomat", livelihood_trait |-> "Brewer",
      travel_trait |-> "Wayfinder",
      essence_traits_choice |-> <<"Brewmaster [Requires: Brewer]",
                                  "Ironclad Will", "Phoenix's Flight",
                                  "Chimera's Gift">>]}

PlayerArgs(g, t, size, birthdate, eye_color) ==
    [genetics              |-> g,
     physical_trait        |-> t.physical_trait,
     mental_trait          |-> t.mental_trait,
     social_trait          |-> t.social_trait,
     livelihood_trait      |-> t.livelihood_trait,
     travel_trait          |-> t.travel_trait,
     essence_traits_choice |-> t.essence_traits_choice,
     size                  |-> size,
     birthdate             |-> birthdate,
     eye_color             |-> eye_color]

\* the most constructor calls of one behaviour
MaxConstructions == 2

\* the variables a specification does not use stay at these values
NoPlayerState ==
    /\ args = Missing /\ player = Missing /\ pc = "none" /\ cursor = <<0, 0>>
    /\ construction = 0 /\ first_player = Missing

NoSessionState ==
    /\ session_state = Missing /\ current_save_data = Missing
    /\ download = Missing /\ saved_character = Missing /\ xp_clicks = 0

NoProbeState ==
    /\ ability_range = Missing /\ skill = Missing /\ profile = Missing

playerVars == <<args, player, pc, cursor, construction, first_player>>

sessionVars ==
    <<session_state, current_save_data, download, saved_character, xp_clicks>>

probeVars == <<ability_range, skill, profile>>

\* ------------------------------------------------------------------------
\* The Player specification: one constructor call after another, stage by
\* stage, on arguments drawn from the choices above
\* ------------------------------------------------------------------------
InitPlayer ==
    /\ GENETIC_MODIFIERS \in Range(GeneticTables) \cup {GeneTableCostly}
    /\ \E g \in GeneticsChoices, t \in TraitChoices, size \in SizeChoices,
          birthdate \in BirthdateChoices :
            args = PlayerArgs(g, t, size, birthdate, "Emerald")
    /\ player = Missing
    /\ pc = "new"
    /\ cursor = <<0, 0>>
    /\ construction = 0
    /\ first_player = Missing
    /\ calls = <<>>
    /\ NoSessionState
    /\ NoProbeState

\* lines 2052-2066
Construct ==
    /\ pc = "new"
    /\ player' = PlayerFields(args)
    /\ construction' = construction + 1
    /\ pc' = "baseline"
    /\ calls' = <<>>
    /\ UNCHANGED <<GENETIC_MODIFIERS, args, cursor, first_player>>
    /\ UNCHANGED <<sessionVars, probeVars>>

Baseline ==
    /\ pc = "baseline"
    /\ player' = BaselineStage(player)
    /\ pc' = "genetic"
    /\ UNCHANGED <<GENETIC_MODIFIERS, args, cursor, construction, first_player, calls>>
    /\ UNCHANGED <<sessionVars, probeVars>>

Genetic ==
    /\ pc = "genetic"
    /\ player' = GeneticStage(player, GENETIC_MODIFIERS)
    /\ pc' = "somatic"
    /\ UNCHANGED <<GENETIC_MODIFIERS, args, cursor, construction, first_player, calls>>
    /\ UNCHANGED <<sessionVars, probeVars>>

Somatic ==
    /\ pc = "somatic"
    /\ player' = SomaticStage(player)
    /\ pc' = "trait"
    /\ cursor' = <<1, 1>>
    /\ UNCHANGED <<GENETIC_MODIFIERS, args, construction, first_player, calls>>
    /\ UNCHANGED <<sessionVars, probeVars>>

\* the trait the cursor is at, and its ability modifiers
CursorTrait == TraitList(player)[cursor[1]]

CursorAbilities ==
    IF CursorTrait \in DOMAIN TRAIT_MODIFIERS
    THEN TRAIT_MODIFIERS[CursorTrait].Abilities
    ELSE <<>>

\* one pass of the ability loop (lines 2549-2558)
TraitAbility ==
    /\ pc = "trait"
    /\ cursor[1] <= Len(TraitList(player))
    /\ cursor[2] <= Len(CursorAbilities)
    /\ player' = TraitAbilityStep(player, CursorTrait,
                                  CursorAbilities[cursor[2]][1],
                                  CursorAbilities[cursor[2]][2])
    /\ cursor' = <<cursor[1], cursor[2] + 1>>
    /\ UNCHANGED <<GENETIC_MODIFIERS, args, pc, construction, first_player, calls>>
    /\ UNCHANGED <<sessionVars, probeVars>>

\* the slider loop of the trait (lines 2561-2562), then the next trait
TraitSliders ==
    /\ pc = "trait"
    /\ cursor[1] <= Len(TraitList(player))
    /\ cursor[2] > Len(CursorAbilities)
    /\ player' = IF CursorTrait \in DOMAIN TRAIT_MODIFIERS
                 THEN TraitSliderLoop(player, TRAIT_MODIFIERS[CursorTrait].Sliders)
                 ELSE player
    /\ cursor' = <<cursor[1] + 1, 1>>
    /\ UNCHANGED <<GENETIC_MODIFIERS, args, pc, construction, first_player, calls>>
    /\ UNCHANGED <<sessionVars, probeVars>>

\* lines 2578-2580
Rebase ==
    /\ pc = "trait"
    /\ cursor[1] > Len(TraitList(player))
    /\ player' = RebaseStage(player)
    /\ pc' = "ageAbilities"
    /\ cursor' = <<0, 0>>
    /\ UNCHANGED <<GENETIC_MODIFIERS, args, construction, first_player, calls>>
    /\ UNCHANGED <<sessionVars, probeVars>>

AgeAbilities ==
    /\ pc = "ageAbilities"
    /\ player' = AgeAbilitiesStage(player)
    /\ pc' = "seed"
    /\ UNCHANGED <<GENETIC_MODIFIERS, args, cursor, construction, first_player, calls>>
    /\ UNCHANGED <<sessionVars, probeVars>>

Seed ==
    /\ pc = "seed"
    /\ player' = SeedStage(player)
    /\ calls' = SeedCalls(player.abilities, player.gameplay_sliders,
                          player.skill_init_overflow, TraitList(player))
    /\ pc' = "ageSliders"
    /\ UNCHANGED <<GENETIC_MODIFIERS, args, cursor, construction, first_player>>
    /\ UNCHANGED <<sessionVars, probeVars>>

AgeSliders ==
    /\ pc = "ageSliders"
    /\ player' = AgeSlidersStage(player)
    /\ pc' = "done"
    /\ first_player' = IF construction = 1 THEN player' ELSE first_player
    /\ calls' = <<>>
    /\ UNCHANGED <<GENETIC_MODIFIERS, args, cursor, construction>>
    /\ UNCHANGED <<sessionVars, probeVars>>

\* an independent second call with the same arguments
ConstructAgain ==
    /\ pc = "done"
    /\ construction < MaxConstructions
    /\ pc' = "new"
    /\ UNCHANGED <<GENETIC_MODIFIERS, args, player, cursor, construction,
                   first_player, calls>>
    /\ UNCHANGED <<sessionVars, probeVars>>

NextPlayer ==
    \/ Construct \/ Baseline \/ Genetic \/ Somatic \/ TraitAbility
    \/ TraitSliders \/ Rebase \/ AgeAbilities \/ Seed \/ AgeSliders
    \/ ConstructAgain

SpecPlayer == InitPlayer /\ [][NextPlayer]_vars

\* ------------------------------------------------------------------------
\* Properties of the Player specification
\* ------------------------------------------------------------------------
InUnitRange(r) ==
    /\ 0 <= r.floor /\ r.floor <= r.current
    /\ r.current <= r.ceiling /\ r.ceiling <= 99000

\* C2: once the constructor has finished, every ability satisfies
\* 0 <= floor <= current <= ceiling <= 99, whatever the genetic table, the
\* size and the traits.
C2_AbilitiesInRange ==
    pc = "done" =>
        \A a \in DOMAIN player.abilities : InUnitRange(player.abilities[a])

\* a step of the ability loop of the trait stage
IsTraitAbilityStep ==
    /\ pc = "trait"
    /\ cursor[1] <= Len(TraitList(player))
    /\ cursor[2] <= Len(CursorAbilities)
    /\ cursor' = <<cursor[1], cursor[2] + 1>>

\* C3: a trait delta d above the headroom h = ceiling - current appends
\* exactly one overflow entry <<d - h, trait, ability>> and leaves
\* current = ceiling; a delta within the headroom appends nothing.
C3_OverflowEntry ==
    [][IsTraitAbilityStep =>
        LET a == CursorAbilities[cursor[2]][1]
            d == CursorAbilities[cursor[2]][2] * k_ability * 10
            h == player.abilities[a].ceiling - player.abilities[a].current
        IN IF h < d
           THEN /\ player'.skill_init_overflow =
                      Append(player.skill_init_overflow, <<d - h, CursorTrait, a>>)
                /\ player'.abilities[a].current = player'.abilities[a].ceiling
           ELSE (player'.skill_init_overflow = player.skill_init_overflow)]_vars

\* C4: seeding starts only after every ability and slider stage has
\* finished: from the moment initialize_skillsets is entered, no ability or
\* slider range of the Player under construction changes any more.
C4_NoChangeAfterSeeding ==
    [][(pc \in {"seed", "ageSliders"}) =>
        (/\ player'.abilities = player.abilities
         /\ player'.gameplay_sliders = player.gameplay_sliders)]_vars

_planet_to_essence(planet_name) ==
    CASE planet_name = "Synvios" -> "B"
      [] planet_name = "Fortis Crags" -> "D"
      [] planet_name = "Percepio" -> "E"
      [] planet_name = "Celeste" -> "I"
      [] planet_name = "Nexus" -> "A"
      [] planet_name = "Variare" -> "M"

_essence_name_to_marker(essence_name) ==
    CASE essence_name = "Equilibrio" -> "E"
      [] essence_name = "Durabilis" -> "D"
      [] essence_name = "Sapien" -> "I"
      [] essence_name = "Arcanum" -> "A"
      [] essence_name = "Symbiosis" -> "B"
      [] essence_name = "Metamorphosis" -> "M"

\* the first upper-case marker, else the first marker, names the planet
_markers_to_planet(markers) ==
    IF markers = <<>> THEN None
    ELSE LET ups == {i \in DOMAIN markers : isupper(markers[i])}
             first == IF ups = {} THEN 1
                      ELSE CHOOSE i \in ups : \A j \in ups : i <= j
             marker == upper(markers[first])
         IN CASE marker = "B" -> "Synvios"
              [] marker = "D" -> "Fortis Crags"
              [] marker = "E" -> "Percepio"
              [] marker = "I" -> "Celeste"
              [] marker = "A" -> "Nexus"
              [] marker = "M" -> "Variare"
              [] OTHER -> None

_marker_to_colour(marker) ==
    CASE upper(marker) = "E" -> "Violet"
      [] upper(marker) = "D" -> "Crimson"
      [] upper(marker) = "I" -> "Sapphire"
      [] upper(marker) = "A" -> "Amber"
      [] upper(marker) = "B" -> "Emerald"
      [] upper(marker) = "M" -> "Chartreuse"

_colour_to_marker(colour) ==
    CASE colour = "Violet" -> "E"
      [] colour = "Crimson" -> "D"
      [] colour = "Sapphire" -> "I"
      [] colour = "Amber" -> "A"
      [] colour = "Emerald" -> "B"
      [] colour = "Chartreuse" -> "M"

\* sorted(markers) of get_eye_color_options: the upper-case markers in
\* string order
SortedMarkers == <<"A", "B", "D", "E", "I", "M">>

get_eye_color_options(ss) ==
    LET markers == {_planet_to_essence(ss.player_planet),
                    _planet_to_essence(ss.mother_planet),
                    _essence_name_to_marker(ss.mother_extra_1),
                    _essence_name_to_marker(ss.mother_extra_2),
                    _planet_to_essence(ss.father_planet),
                    _essence_name_to_marker(ss.father_extra_1),
                    _essence_name_to_marker(ss.father_extra_2)}
        sorted == SelectSeq(SortedMarkers, LAMBDA m : m \in markers)
    IN [i \in DOMAIN sorted |-> _marker_to_colour(sorted[i])]

\* display(), the eye colour widget: a colour that is not an option is
\* replaced by the first option.  Every rerun of the script passes here
\* before it reaches a button handler.
display(ss) ==
    LET eye_color_options == get_eye_color_options(ss) IN
    IF ss.eye_color = "" \/ ~InSeq(ss.eye_color, eye_color_options)
    THEN [ss EXCEPT !.eye_color = eye_color_options[1]]
    ELSE ss

\* _init_session_state followed by the first display()
InitialSessionState ==
    display([player_planet |-> "Synvios", mother_planet |-> "Synvios",
             father_planet |-> "Synvios",
             mother_extra_1 |-> "Equilibrio", mother_extra_2 |-> "Durabilis",
             father_extra_1 |-> "Equilibrio", father_extra_2 |-> "Durabilis",
             height |-> 66, weight |-> 150,
             birth_year |-> 860, birth_month |-> 1,
             physical_trait |-> "Survivalist", mental_trait |-> "Strategist",
             social_trait |-> "Diplomat", livelihood_trait |-> "Mercantile",
             travel_trait |-> "Wayfinder",
             essence_traits |-> <<"", "", "", "">>,
             eye_color |-> "",
             character_created |-> FALSE])

\* the trait a "[Requires: ...]" tag names, None for a trait without a tag
RequiredTrait(trait) ==
    CASE trait = "Homeostatic Healing [Requires: Medic]" -> "Medic"
      [] trait = "Pangolin's Plaitmancer [Requires: Artisan]" -> "Artisan"
      [] trait = "Portalmaster [Requires: Gatewalker]" -> "Gatewalker"
      [] trait = "Brewmaster [Requires: Brewer]" -> "Brewer"
      [] OTHER -> None

NonEmpty(traits) == SelectSeq(traits, LAMBDA t : t # "")

\* a validation that reports no requirement issue at all
validate_nothing(ss) == <<>>

\* validate_trait_requirements: the traits whose requirement is not selected
validate_trait_requirements(ss) ==
    LET all_selected_traits ==
            NonEmpty(<<ss.physical_trait, ss.mental_trait, ss.social_trait,
                       ss.livelihood_trait, ss.travel_trait>>)
                \o NonEmpty(ss.essence_traits)
    IN SelectSeq(all_selected_traits,
                 LAMBDA t : /\ RequiredTrait(t) # None
                            /\ ~InSeq(RequiredTrait(t), all_selected_traits))

\* the two early returns of create_character
CreateRejected(ss) ==
    \/ Len(NonEmpty(ss.essence_traits)) # 4
    \/ validate_trait_requirements(ss) # <<>>

\* create_character, the marker rows (lines 3186-3238).  Rows 1, 2, 3 are
\* the planet, mother and father lists, lower-cased.
LowerRows(ss) ==
    LET pm == _planet_to_essence(ss.player_planet)
        mm == _planet_to_essence(ss.mother_planet)
        fm == _planet_to_essence(ss.father_planet)
    IN <<MapLower(<<pm, pm, pm>>),
         MapLower(<<mm, _essence_name_to_marker(ss.mother_extra_1),
                    _essence_name_to_marker(ss.mother_extra_2)>>),
         MapLower(<<fm, _essence_name_to_marker(ss.father_extra_1),
                    _essence_name_to_marker(ss.father_extra_2)>>)>>

\* row_ref.sort(key=lambda x: x.islower()): a stable sort
UpperFirst(row) ==
    SelectSeq(row, LAMBDA x : ~islower(x)) \o SelectSeq(row, islower)

\* the rows after the eye-colour override, the random upper-casing and the
\* sort.  order is the result of random.shuffle(rows) and draws[r] the
\* random.randrange(3) of row r (both 1-based), read only for a row the eye
\* colour does not express.
MarkerRows(rows, eye_marker, order, draws) ==
    LET eye_lc == lower(eye_marker)
        matching == {n \in 1..3 : InSeq(eye_lc, rows[order[n]])}
        expressed_row ==
            IF matching = {} THEN 0
            ELSE order[CHOOSE n \in matching : \A k \in matching : n <= k]
        Expressed(r) ==
            IF r = expressed_row
            THEN LET idx == CHOOSE i \in 1..3 :
                               /\ rows[r][i] = eye_lc
                               /\ \A j \in 1..(i - 1) : rows[r][j] # eye_lc
                 IN [rows[r] EXCEPT ![idx] = eye_marker]
            ELSE [rows[r] EXCEPT ![draws[r]] = upper(@)]
    IN [planet |-> UpperFirst(Expressed(1)),
        mother |-> UpperFirst(Expressed(2)),
        father |-> UpperFirst(Expressed(3))]

Shuffles == {<<1, 2, 3>>, <<1, 3, 2>>, <<2, 1, 3>>, <<2, 3, 1>>, <<3, 1, 2>>, <<3, 2, 1>>}

\* every result the random draws of create_character can give
PossibleMarkerRows(ss) ==
    LET rows == LowerRows(ss)
        eye_marker == _colour_to_marker(ss.eye_color)
    IN {MarkerRows(rows, eye_marker, order, draws) :
            order \in Shuffles, draws \in (1..3) \X (1..3) \X (1..3)}

\* the arguments create_character passes to Player(...)
CreateArgs(ss, rows) ==
    [genetics |-> GeneticsInit(rows.father, rows.mother, rows.planet,
                               TRUE, <<1, 1, 1>>),
     physical_trait |-> ss.physical_trait,
     mental_trait |-> ss.mental_trait,
     social_trait |-> ss.social_trait,
     livelihood_trait |-> ss.livelihood_trait,
     travel_trait |-> ss.travel_trait,
     essence_traits_choice |-> NonEmpty(ss.essence_traits),
     size |-> [Height |-> ss.height, Weight |-> ss.weight],
     birthdate |-> [Year |-> ss.birth_year, Month |-> ss.birth_month],
     eye_color |-> ss.eye_color]

\* the save dict of lines 3308-3322; SkillXP is filled here and nowhere else
SaveData(ss, rows, p) ==
    [Genetics |-> [FatherMarkers |-> rows.father,
                   MotherMarkers |-> rows.mother,
                   PlanetMarkers |-> rows.planet],
     PhysicalTrait |-> ss.physical_trait,
     MentalTrait |-> ss.mental_trait,
     SocialTrait |-> ss.social_trait,
     LivelihoodTrait |-> ss.livelihood_trait,
     TravelTrait |-> ss.travel_trait,
     EssenceTraits |-> NonEmpty(ss.essence_traits),
     Size |-> [Height |-> ss.height, Weight |-> ss.weight],
     Birthdate |-> [Year |-> ss.birth_year, Month |-> ss.birth_month],
     EyeColor |-> ss.eye_color,
     SkillXP |-> [k \in DOMAIN p.skillsets |-> p.skillsets[k].xp]]

\* create_character past its early returns: the Player stored in
\* st.session_state.player, the save stored in current_save_data, and the
\* increment_xp calls the constructor made
create_character(ss, rows, table) ==
    Then(SeededPlayer(CreateArgs(ss, rows), table), LAMBDA p7 :
        LET p == AgeSlidersStage(p7) IN
        [player |-> p,
         save |-> SaveData(ss, rows, p),
         calls |-> SeedCalls(p7.abilities, p7.gameplay_sliders,
                             p7.skill_init_overflow, TraitList(p7))])

\* _load_character_from_json, the fields pushed into session_state
PushSaveFields(ss, data) ==
    LET planet(markers) == IF _markers_to_planet(markers) # None
                           THEN _markers_to_planet(markers) ELSE "Synvios"
    IN [ss EXCEPT
          !.player_planet = planet(data.Genetics.PlanetMarkers),
          !.mother_planet = planet(data.Genetics.MotherMarkers),
          !.father_planet = planet(data.Genetics.FatherMarkers),
          !.birth_year = data.Birthdate.Year,
          !.birth_month = data.Birthdate.Month,
          !.height = data.Size.Height,
          !.weight = data.Size.Weight,
          !.eye_color = data.EyeColor,
          !.physical_trait = data.PhysicalTrait,
          !.mental_trait = data.MentalTrait,
          !.social_trait = data.SocialTrait,
          !.livelihood_trait = data.LivelihoodTrait,
          !.travel_trait = data.TravelTrait,
          !.essence_traits =
              [i \in 1..Max2(4, Len(data.EssenceTraits)) |->
                  IF i <= Len(data.EssenceTraits) THEN data.EssenceTraits[i]
                  ELSE ""]]

\* "Restore skill-set progress": delta = saved_xp - skill.xp, applied when
\* it is not zero
RestoreDelta(p, xp_table, k) == xp_table[k] - p.skillsets[k].xp

RestoreSkillXP(p, xp_table) ==
    [p EXCEPT !.skillsets =
        [k \in DOMAIN p.skillsets |->
            IF k \in DOMAIN xp_table /\ RestoreDelta(p, xp_table, k) # 0
            THEN increment_xp(p.skillsets[k], RestoreDelta(p, xp_table, k))
            ELSE p.skillsets[k]]]

\* the increment_xp calls of the restore loop, in the order of the save
RestoreCalls(p, xp_table) ==
    LET names == [i \in DOMAIN SKILLSET_ABILITY_DEPENDENCE |->
                     SKILLSET_ABILITY_DEPENDENCE[i].name]
        called == SelectSeq(names, LAMBDA k :
                      /\ k \in DOMAIN xp_table
                      /\ k \in DOMAIN p.skillsets
                      /\ RestoreDelta(p, xp_table, k) # 0)
    IN [i \in DOMAIN called |-> <<called[i], RestoreDelta(p, xp_table, called[i])>>]

\* ------------------------------------------------------------------------
\* The session specification: one browser session of the character
\* creator.  Each action is one rerun of the script: display() first, then
\* the handler of the widget that was used.
\* ------------------------------------------------------------------------
\* what the user can set the widgets to: a Synvios family with four essence
\* traits chosen (the widgets start with no essence trait chosen)
Forms ==
    {[player_planet |-> "Synvios", mother_planet |-> "Synvios",
      father_planet |-> "Synvios",
      mother_extra_1 |-> "Symbiosis", mother_extra_2 |-> "Symbiosis",
      father_extra_1 |-> "Symbiosis", father_extra_2 |-> "Equilibrio",
      height |-> 66, weight |-> 150, birth_year |-> 860, birth_month |-> 1,
      physical_trait |-> "Survivalist", mental_trait |-> "Strategist",
      social_trait |-> "Diplomat", livelihood_trait |-> "Mercantile",
      travel_trait |-> "Wayfinder",
      essence_traits |-> <<"Ironclad Will", "Phoenix's Flight",
                           "Chimera's Gift", "Prodigal Polymath">>,
      eye_color |-> "Emerald"]}

\* the skillsets and the amounts used in the Admin / XP Management panel
PanelSkillsets == {"Adrenaline Surge"}

PanelDeltas == {-100, 0, 500}

\* the most Apply XP clicks on one Player
MaxApplied == 1

Init ==
    /\ GENETIC_MODIFIERS \in Range(GeneticTables)
    /\ args = Missing /\ cursor = <<0, 0>> /\ first_player = Missing
    /\ player = Missing
    /\ construction = 0
    /\ pc = "started"
    /\ calls = <<>>
    /\ session_state = InitialSessionState
    /\ current_save_data = Missing
    /\ download = Missing
    /\ saved_character = Missing
    /\ xp_clicks = 0
    /\ NoProbeState

\* the user changes the selection widgets
SetSelections ==
    /\ \E form \in Forms :
        session_state' =
            display(form @@ [character_created |->
                                 session_state.character_created])
    /\ session_state' # session_state
    /\ pc' = "selected"
    /\ calls' = <<>>
    /\ UNCHANGED <<GENETIC_MODIFIERS, args, player, cursor, construction,
                   first_player, current_save_data, download, saved_character,
                   xp_clicks>>
    /\ UNCHANGED probeVars

\* "Create Custom Character" with create_character returning True
CreateCharacter ==
    /\ construction < MaxConstructions
    /\ ~CreateRejected(display(session_state))
    /\ \E rows \in PossibleMarkerRows(display(session_state)) :
        \E created \in {create_character(display(session_state), rows,
                                          GENETIC_MODIFIERS)} :
           /\ player' = created.player
           /\ current_save_data' = created.save
           /\ calls' = created.calls
    /\ session_state' = [display(session_state) EXCEPT !.character_created = TRUE]
    /\ construction' = construction + 1
    /\ xp_clicks' = 0
    /\ pc' = "created"
    /\ UNCHANGED <<GENETIC_MODIFIERS, args, cursor, first_player, download,
                   saved_character>>
    /\ UNCHANGED probeVars

\* "Create Custom Character" with create_character returning False
CreateCharacterRejected ==
    /\ CreateRejected(display(session_state))
    /\ session_state' = display(session_state)
    /\ pc' = "rejected"
    /\ calls' = <<>>
    /\ UNCHANGED <<GENETIC_MODIFIERS, args, player, cursor, construction,
                   first_player, current_save_data, download, saved_character,
                   xp_clicks>>
    /\ UNCHANGED probeVars

\* "Apply XP" in the Admin / XP Management panel of the player card
ApplyXP ==
    /\ player # Missing
    /\ session_state.character_created
    /\ xp_clicks < MaxApplied
    /\ \E sk_name \in PanelSkillsets, delta \in PanelDeltas :
        /\ delta # 0
        /\ player' = [player EXCEPT !.skillsets[sk_name] = increment_xp(@, delta)]
        /\ calls' = <<<<sk_name, delta>>>>
    /\ session_state' = display(session_state)
    /\ xp_clicks' = xp_clicks + 1
    /\ pc' = "applied"
    /\ UNCHANGED <<GENETIC_MODIFIERS, args, cursor, construction, first_player,
                   current_save_data, download, saved_character>>
    /\ UNCHANGED probeVars

\* "Download character save (JSON)": the file holds current_save_data
DownloadSave ==
    /\ player # Missing
    /\ session_state.character_created
    /\ current_save_data # Missing
    /\ download' = current_save_data
    /\ saved_character' = player
    /\ session_state' = display(session_state)
    /\ pc' = "downloaded"
    /\ calls' = <<>>
    /\ UNCHANGED <<GENETIC_MODIFIERS, args, player, cursor, construction,
                   first_player, current_save_data, xp_clicks>>
    /\ UNCHANGED probeVars

\* the downloaded file is given to the file uploader:
\* _load_character_from_json.  The file was written by create_character, so
\* the create_character call inside takes neither early return.
LoadCharacter ==
    /\ download # Missing
    /\ construction < MaxConstructions
    /\ LET ss == PushSaveFields(display(session_state), download) IN
        /\ ~CreateRejected(ss)
        /\ \E rows \in PossibleMarkerRows(ss) :
            \E created \in {create_character(ss, rows, GENETIC_MODIFIERS)} :
               /\ player' = RestoreSkillXP(created.player, download.SkillXP)
               /\ current_save_data' = created.save
               /\ calls' = created.calls
                            \o RestoreCalls(created.player, download.SkillXP)
        /\ session_state' = [ss EXCEPT !.character_created = TRUE]
    /\ construction' = construction + 1
    /\ xp_clicks' = 0
    /\ pc' = "loaded"
    /\ UNCHANGED <<GENETIC_MODIFIERS, args, cursor, first_player, download,
                   saved_character>>
    /\ UNCHANGED probeVars

Next ==
    \/ SetSelections \/ CreateCharacter \/ CreateCharacterRejected
    \/ ApplyXP \/ DownloadSave \/ LoadCharacter

Spec == Init /\ [][Next]_vars

\* the Skillset a step starts from: a fresh one when the step builds the
\* Player, the one the Player already has otherwise
SkillsetBefore(k) ==
    IF player = Missing \/ pc' \in {"created", "loaded"}
    THEN NewSkillset
    ELSE player.skillsets[k]

\* the step makes no increment_xp call with a negative amount on skillset k
NoNegativeCall(k) ==
    \A i \in DOMAIN calls' : calls'[i][1] = k => calls'[i][2] >= 0

C8_RoundTrip ==
    (pc = "loaded") =>
        /\ \A k \in SkillsetNames :
               player.skillsets[k] = saved_character.skillsets[k]
        /\ player.abilities = saved_character.abilities
        /\ player.gameplay_sliders = saved_character.gameplay_sliders

\* ------------------------------------------------------------------------
\* The creation specification: the trait widgets and the "Create Custom
\* Character" button, with selections that create_character must refuse
\* ------------------------------------------------------------------------
\* trait selections: a requirement that is not met, three essence traits
\* only, and one essence trait chosen in two of the four boxes
TraitSelections ==
    {[livelihood_trait |-> "Mercantile",
      essence_traits |-> <<"Homeostatic Healing [Requires: Medic]",
                           "Ironclad Will", "Phoenix's Flight",
                           "Chimera's Gift">>],
     [livelihood_trait |-> "Mercantile",
      essence_traits |-> <<"Ironclad Will", "Phoenix's Flight",
                           "Chimera's Gift", "">>],
     [livelihood_trait |-> "Mercantile",
      essence_traits |-> <<"Ironclad Will", "Ironclad Will",
                           "Phoenix's Flight", "Chimera's Gift">>]}

\* the user changes the livelihood and essence trait select boxes
SetTraitSelections ==
    /\ \E sel \in TraitSelections :
        session_state' =
            display([session_state EXCEPT
                        !.livelihood_trait = sel.livelihood_trait,
                        !.essence_traits = sel.essence_traits])
    /\ session_state' # session_state
    /\ pc' = "selected"
    /\ calls' = <<>>
    /\ UNCHANGED <<GENETIC_MODIFIERS, args, player, cursor, construction,
                   first_player, current_save_data, download, saved_character,
                   xp_clicks>>
    /\ UNCHANGED probeVars

NextCreate ==
    \/ SetSelections \/ SetTraitSelections
    \/ CreateCharacter \/ CreateCharacterRejected

SpecCreate == Init /\ [][NextCreate]_vars

\* the selected traits, the five single traits first
SelectedTraits(ss) ==
    NonEmpty(<<ss.physical_trait, ss.mental_trait, ss.social_trait,
               ss.livelihood_trait, ss.travel_trait>>)
        \o NonEmpty(ss.essence_traits)

\* the selection has not exactly 4 essence traits, or holds a trait whose
\* "[Requires: X]" names a trait X that is not selected
InvalidSelection(ss) ==
    \/ Cardinality({i \in DOMAIN ss.essence_traits : ss.essence_traits[i] # ""}) # 4
    \/ \E i \in DOMAIN SelectedTraits(ss) :
          /\ RequiredTrait(SelectedTraits(ss)[i]) # None
          /\ RequiredTrait(SelectedTraits(ss)[i]) \notin Range(SelectedTraits(ss))

\* C13: while the selection is invalid no step builds a Player: the Player
\* built before, if any, and the count of constructions stay as they are
C13_InvalidSelectionBuildsNothing ==
    [][InvalidSelection(display(session_state)) =>
          (player' = player /\ construction' = construction)]_vars

\* creation was refused for an unmet requirement while a Player built
\* earlier exists
C13_Witness ==
    /\ pc = "rejected"
    /\ player # Missing
    /\ construction >= 1
    /\ Len(NonEmpty(session_state.essence_traits)) = 4
    /\ InvalidSelection(session_state)

\* C14: a Player is built only from pairwise distinct essence traits
C14_DistinctEssenceTraits ==
    (player # Missing) =>
        \A i, j \in DOMAIN player.essence_traits_choice :
            (i # j) =>
                player.essence_traits_choice[i] # player.essence_traits_choice[j]

\* ------------------------------------------------------------------------
\* The somatic stage at the neutral size (Player specification)
\* ------------------------------------------------------------------------
\* the abilities compute_size_modifiers has a formula for
SizeAbilities ==
    {"Strength", "Speed", "Agility", "Reflexes", "Resilience", "Recovery",
     "Stealth", "Intimidation"}

\* C16: at height 71 in and weight 175 lb the somatic stage adds 0 to the
\* floor and to the ceiling of each of the 8 size-dependent abilities, so it
\* leaves what boundary_check makes of the range as it was, and it adds 0
\* to the Inverse Metabolic Rate slider
C16_NeutralSizeAddsNothing ==
    [][(pc = "somatic" /\ player.size = [Height |-> 71, Weight |-> 175]) =>
          /\ \A a \in SizeAbilities :
                /\ compute_size_modifiers(player.size, a) = <<0, 0>>
                /\ player'.abilities[a] = boundary_check(player.abilities[a])
          /\ size_alter_sliders(player.size, "Inverse Metabolic Rate") = 0
          /\ player'.gameplay_sliders["Inverse Metabolic Rate"] =
                player.gameplay_sliders["Inverse Metabolic Rate"]]_vars

\* the somatic stage has just run on a Player of the neutral size whose
\* Strength range the genetic stage had moved
C16_Witness ==
    /\ pc = "trait" /\ cursor = <<1, 1>>
    /\ player.size = [Height |-> 71, Weight |-> 175]
    /\ player.abilities["Strength"].ceiling # 1000
    /\ player.gameplay_sliders["Inverse Metabolic Rate"].current = 5000

\* C21: the somatic stage leaves floor, ceiling and current of every ability
\* other than the 8 size-dependent ones as they were, leaves every slider
\* other than Inverse Metabolic Rate as it was, and leaves the floor and the
\* ceiling of Inverse Metabolic Rate as they were
C21_SomaticFrame ==
    [][(pc = "somatic") =>
          /\ \A a \in DOMAIN player.abilities \ SizeAbilities :
                player'.abilities[a] = player.abilities[a]
          /\ \A s \in DOMAIN player.gameplay_sliders \ {"Inverse Metabolic Rate"} :
                player'.gameplay_sliders[s] = player.gameplay_sliders[s]
          /\ player'.gameplay_sliders["Inverse Metabolic Rate"].floor =
                player.gameplay_sliders["Inverse Metabolic Rate"].floor
          /\ player'.gameplay_sliders["Inverse Metabolic Rate"].ceiling =
                player.gameplay_sliders["Inverse Metabolic Rate"].ceiling]_vars

\* ------------------------------------------------------------------------
\* The trait stage (Player specification)
\* ------------------------------------------------------------------------
\* the weight a table of <<name, weight>> pairs gives a name, 0 if absent
RECURSIVE WeightOf(_, _)
WeightOf(mods, name) ==
    IF mods = <<>> THEN 0
    ELSE (IF Head(mods)[1] = name THEN Head(mods)[2] ELSE 0)
         + WeightOf(Tail(mods), name)

\* the slider modifiers of the trait the cursor is at
CursorSliders ==
    IF CursorTrait \in DOMAIN TRAIT_MODIFIERS
    THEN TRAIT_MODIFIERS[CursorTrait].Sliders
    ELSE <<>>

\* C23: in every step of the trait stage an ability that satisfies
\* 0 <= floor <= ceiling <= 99 and current = floor keeps its ceiling and
\* does not get a lower floor; an ability the trait's ability table does not
\* name stays as it is; every slider keeps its floor and its ceiling, and its
\* current changes by the trait's weight for it times 30 and by nothing else
C23_TraitStageFrame ==
    [][(pc = "trait" /\ pc' = "trait") =>
          /\ \A a \in DOMAIN player.abilities :
                /\ (InUnitRange(player.abilities[a])
                      /\ player.abilities[a].current = player.abilities[a].floor) =>
                      /\ player'.abilities[a].ceiling = player.abilities[a].ceiling
                      /\ player'.abilities[a].floor >= player.abilities[a].floor
                /\ (WeightOf(CursorAbilities, a) = 0) =>
                      player'.abilities[a] = player.abilities[a]
          /\ \A s \in DOMAIN player.gameplay_sliders :
                /\ player'.gameplay_sliders[s].floor = player.gameplay_sliders[s].floor
                /\ player'.gameplay_sliders[s].ceiling =
                      player.gameplay_sliders[s].ceiling
                /\ player'.gameplay_sliders[s].current \in
                      {player.gameplay_sliders[s].current,
                       player.gameplay_sliders[s].current
                           + WeightOf(CursorSliders, s) * k_slider}]_vars

\* the first trait has raised the floor of its first ability below the
\* ceiling, and a slider has left the baseline without moving its bounds
C23_Witness ==
    /\ pc = "trait" /\ cursor[1] = 2
    /\ GENETIC_MODIFIERS = GeneTableLineage
    /\ LET a == TRAIT_MODIFIERS[args.physical_trait].Abilities[1][1]
       IN /\ 0 < player.abilities[a].floor
          /\ player.abilities[a].floor < player.abilities[a].ceiling
          /\ player.skill_init_overflow = <<>>
    /\ \E s \in DOMAIN player.gameplay_sliders :
          /\ player.gameplay_sliders[s].current # 5000
          /\ player.gameplay_sliders[s].floor = 100
          /\ player.gameplay_sliders[s].ceiling = 9900

\* the position of entry i's trait in the order of application
AppliedAt(log, i) ==
    CHOOSE n \in 1..9 :
        /\ (<<args.physical_trait, args.mental_trait, args.social_trait,
              args.livelihood_trait, args.travel_trait>>
                \o args.essence_traits_choice)[n] = log[i][2]
        /\ \A k \in 1..(n - 1) :
              (<<args.physical_trait, args.mental_trait, args.social_trait,
                 args.livelihood_trait, args.travel_trait>>
                   \o args.essence_traits_choice)[k] # log[i][2]

\* C24: the n-th trait applied is the n-th of physical, mental, social,
\* livelihood, travel and then the essence traits as selected; a step
\* appends an overflow entry exactly when its delta takes current from not
\* above the ceiling to above it, the entry names the trait and the ability
\* of that step and the amount above the ceiling, and it goes to the end of
\* the log, so the entries stand in the order the traits were applied
C24_OrderAndAttribution ==
    [][IsTraitAbilityStep =>
        LET a == CursorAbilities[cursor[2]][1]
            d == CursorAbilities[cursor[2]][2] * k_ability * 10
            r == player.abilities[a]
            log == player'.skill_init_overflow
        IN /\ CursorTrait =
                 (<<args.physical_trait, args.mental_trait, args.social_trait,
                    args.livelihood_trait, args.travel_trait>>
                      \o args.essence_traits_choice)[cursor[1]]
           /\ r.current <= r.ceiling
           /\ IF r.current + d > r.ceiling
              THEN log = Append(player.skill_init_overflow,
                                <<r.current + d - r.ceiling, CursorTrait, a>>)
              ELSE log = player.skill_init_overflow
           /\ \A i, j \in DOMAIN log :
                 (i < j) => (AppliedAt(log, i) <= AppliedAt(log, j))]_vars

\* two traits have overflowed on the same ability: the entry of the one
\* applied first stands first
C24_Witness ==
    /\ pc = "trait"
    /\ \E i, j \in DOMAIN player.skill_init_overflow :
          /\ i < j
          /\ player.skill_init_overflow[i][3] = player.skill_init_overflow[j][3]
          /\ player.skill_init_overflow[i][2] = args.physical_trait
          /\ player.skill_init_overflow[j][2] = args.essence_traits_choice[1]

\* the sum of weight * 30 the traits give a slider
RECURSIVE SliderTraitDelta(_, _)
SliderTraitDelta(traits, s) ==
    IF traits = <<>> THEN 0
    ELSE (IF Head(traits) \in DOMAIN TRAIT_MODIFIERS
          THEN WeightOf(TRAIT_MODIFIERS[Head(traits)].Sliders, s) * k_slider
          ELSE 0)
         + SliderTraitDelta(Tail(traits), s)

\* C25: after construction every slider has floor = c - 10 and
\* ceiling = c + 10, c being 50 plus the somatic delta plus the trait deltas,
\* and its current lies between floor and ceiling
C25_SliderBand ==
    (pc = "done") =>
        \A s \in DOMAIN player.gameplay_sliders :
            LET c == 5000 + size_alter_sliders(args.size, s)
                     + SliderTraitDelta(
                         <<args.physical_trait, args.mental_trait,
                           args.social_trait, args.livelihood_trait,
                           args.travel_trait>> \o args.essence_traits_choice, s)
                r == player.gameplay_sliders[s]
            IN /\ r.floor = c - 1000
               /\ r.ceiling = c + 1000
               /\ r.floor <= r.current /\ r.current <= r.ceiling

\* a constructed Player whose Inverse Metabolic Rate band the size has moved
\* off 40..60 and whose current lies strictly inside the band
C25_Witness ==
    /\ pc = "done"
    /\ args.size = [Height |-> 72, Weight |-> 300]
    /\ LET r == player.gameplay_sliders["Inverse Metabolic Rate"]
       IN /\ r.ceiling < 6000
          /\ r.ceiling - r.floor = 2000
          /\ r.floor < r.current /\ r.current < r.ceiling

\* the selected trait keys of the constructor call, in argument order
SelectedKeys ==
    <<args.physical_trait, args.mental_trait, args.social_trait,
      args.livelihood_trait, args.travel_trait>> \o args.essence_traits_choice

\* the selected traits whose Skillsets list the skillset
ListedBy(skillset_name) ==
    SelectSeq(SelectedKeys,
              LAMBDA t : /\ t \in DOMAIN TRAIT_MODIFIERS
                         /\ InSeq(skillset_name, TRAIT_MODIFIERS[t].Skillsets))

\* the amounts of the increment_xp calls made on one skillset, in call order
AmountsFor(cs, skillset_name) ==
    LET mine == SelectSeq(cs, LAMBDA c : c[1] = skillset_name)
    IN [i \in DOMAIN mine |-> mine[i][2]]

\* C26: seeding gives each skillset, for each selected trait that lists it,
\* learningRate * normalizedScore * (500000 / number of skillsets of the
\* trait) XP, learningRate being Learning Rate's current / 100 and
\* normalizedScore the weight-normalised mean of the age-adjusted ability
\* currents / 100; a skillset listed by k selected traits receives the k
\* contributions one after another, and its xp is the sum of what it received
C26_SeedContributions ==
    [][(pc = "seed") =>
        \A k \in SkillsetNames :
            LET listing == ListedBy(k)
                dep == SKILLSET_ABILITY_DEPENDENCE[
                           CHOOSE i \in DOMAIN SKILLSET_ABILITY_DEPENDENCE :
                               SKILLSET_ABILITY_DEPENDENCE[i].name = k].abilities
                mean_k == WeightedSum(dep, player.abilities) \div WeightSum(dep)
                lr_h == player.gameplay_sliders["Learning Rate"].current
                got == AmountsFor(calls', k)
            IN /\ \A a \in DOMAIN player.abilities :
                     player.abilities[a].current =
                         AgeBlend(player.abilities[a],
                                  compute_age_modifiers(a, get_age(args.birthdate)))
               /\ Len(got) >= Len(listing)
               /\ \A i \in DOMAIN listing :
                     got[i] = (lr_h * mean_k)
                                \div (2000 * Len(TRAIT_MODIFIERS[listing[i]].Skillsets))
               /\ player'.skillsets[k].xp = SumSeq(got)]_vars

\* seeding has given "Medicinal Brewing", listed by Brewer (3 skillsets) and
\* by Brewmaster (5 skillsets), two different positive contributions
C26_Witness ==
    /\ pc = "ageSliders"
    /\ Len(ListedBy("Medicinal Brewing")) = 2
    /\ LET got == AmountsFor(calls, "Medicinal Brewing")
       IN /\ Len(got) >= 2
          /\ got[1] > got[2] /\ got[2] > 0
          /\ player.skillsets["Medicinal Brewing"].xp >= got[1] + got[2]

\* the traits that have an entry in the overflow log
OverflowTraitSet(log) == {log[i][2] : i \in DOMAIN log}

\* total * 2500 / skillsetCount for one trait, total in thousandths of a point
OverflowShare(log, trait) ==
    LET mine == SelectSeq(log, LAMBDA e : e[2] = trait)
        total == SumSeq([i \in DOMAIN mine |-> mine[i][1]])
    IN (total * 2500) \div (1000 * Len(TRAIT_MODIFIERS[trait].Skillsets))

RECURSIVE SumShares(_, _)
SumShares(log, traits) ==
    IF traits = {} THEN 0
    ELSE LET t == CHOOSE x \in traits : TRUE
         IN OverflowShare(log, t) + SumShares(log, traits \ {t})

\* the traits with overflow whose Skillsets list the skillset
OverflowOwners(log, skillset_name) ==
    {t \in OverflowTraitSet(log) :
        /\ t \in DOMAIN TRAIT_MODIFIERS
        /\ InSeq(skillset_name, TRAIT_MODIFIERS[t].Skillsets)}

\* C27: for each trait with an OverflowEntry, every skillset the trait lists
\* receives total * 2500 / skillsetCount XP once (so skillsetCount skillsets
\* share total * 2500), and a skillset receives overflow XP from no trait
\* that does not list it
C27_OverflowShares ==
    [][(pc = "seed") =>
        LET log == player.skill_init_overflow IN
        /\ \A t \in OverflowTraitSet(log) :
              Cardinality({k \in SkillsetNames : t \in OverflowOwners(log, k)})
                  = Len(TRAIT_MODIFIERS[t].Skillsets)
        /\ \A k \in SkillsetNames :
              LET got == AmountsFor(calls', k)
                  rest == SubSeq(got, Len(ListedBy(k)) + 1, Len(got))
                  owners == OverflowOwners(log, k)
              IN /\ Len(rest) = Cardinality(owners)
                 /\ \A i \in DOMAIN rest :
                       \E t \in owners : rest[i] = OverflowShare(log, t)
                 /\ SumSeq(rest) = SumShares(log, owners)]_vars

\* seeding has handed out the overflow of a trait: one of its skillsets got
\* a positive share after its base contributions, and a skillset listed by
\* no trait with overflow got nothing beyond them
C27_Witness ==
    /\ pc = "ageSliders"
    /\ \E k \in SkillsetNames :
          LET got == AmountsFor(calls, k)
          IN /\ OverflowOwners(player.skill_init_overflow, k) # {}
             /\ Len(got) = Len(ListedBy(k)) + 1
             /\ got[Len(got)] > 0
    /\ \E k \in SkillsetNames :
          /\ ListedBy(k) # <<>>
          /\ OverflowOwners(player.skill_init_overflow, k) = {}
          /\ Len(AmountsFor(calls, k)) = Len(ListedBy(k))

\* ------------------------------------------------------------------------
\* The size specification: compute_size_modifiers called once on a size the
\* height and weight sliders of the form allow
\* ------------------------------------------------------------------------
\* the bounds display() gives the weight slider for a height
min_weight(height) == Max2((18 * height * height) \div 703, 70)

max_weight(height) == Min2((45 * height * height) \div 703, 500)

\* heights from 51 to 90 in, weights in steps of 25 lb and the two bounds
SizeInputs ==
    {[Height |-> height, Weight |-> weight] :
        height \in {51, 60, 66, 71, 78, 84, 90},
        weight \in {70 + 25 * i : i \in 0..17} \cup {70, 500}} \cap
    {size \in [Height : 51..90, Weight : 70..500] :
        /\ min_weight(size.Height) <= size.Weight
        /\ size.Weight <= max_weight(size.Height)}

InitSize ==
    /\ GENETIC_MODIFIERS = GeneTableEmpty
    /\ \E size \in SizeInputs, ability_name \in SizeAbilities \cup {"Willpower"} :
          args = [size |-> size, ability_name |-> ability_name]
    /\ player = Missing /\ first_player = Missing /\ construction = 0
    /\ pc = "new"
    /\ cursor = <<0, 0>>
    /\ calls = <<>>
    /\ NoProbeState
    /\ NoSessionState

\* floor_mod, ceil_mod = self.compute_size_modifiers(ability_name); calls
\* holds the returned pair
CallComputeSizeModifiers ==
    /\ pc = "new"
    /\ calls' = compute_size_modifiers(args.size, args.ability_name)
    /\ pc' = "returned"
    /\ UNCHANGED <<GENETIC_MODIFIERS, args, player, cursor, construction,
                   first_player>>
    /\ UNCHANGED <<sessionVars, probeVars>>

NextSize == CallComputeSizeModifiers

SpecSize == InitSize /\ [][NextSize]_vars

\* C22: the floor modifier and the ceiling modifier compute_size_modifiers
\* returns lie in -20..20
C22_ModifiersWithin20 ==
    (pc = "returned") =>
        /\ -20 <= calls[1] /\ calls[1] <= 20
        /\ -20 <= calls[2] /\ calls[2] <= 20

\* ------------------------------------------------------------------------
\* The genetic stage specification: the marker loop of
\* genetically_alter_abilities on one ability, marker by marker
\* ------------------------------------------------------------------------
InitGeneticStage ==
    /\ GENETIC_MODIFIERS \in Range(GeneticTables)
    /\ \E g \in GeneticsChoices, ability_name \in AbilityNames :
          args = [genetics |-> g, ability_name |-> ability_name]
    /\ ability_range = BaselineAbilities[args.ability_name]
    /\ player = Missing /\ first_player = Missing /\ construction = 0
    /\ pc = "marker"
    /\ cursor = <<0, 1>>
    /\ calls = <<>>
    /\ skill = Missing /\ profile = Missing
    /\ NoSessionState

\* the marker the loop is at
CursorMarker == get_markers(args.genetics)[cursor[2]]

\* one pass of the loop body
ApplyMarker ==
    /\ pc = "marker"
    /\ ability_range' =
          GeneticStep(ability_range, args.ability_name, CursorMarker,
                      GENETIC_MODIFIERS)
    /\ cursor' = <<cursor[1], cursor[2] + 1>>
    /\ pc' = IF cursor'[2] > Len(get_markers(args.genetics))
             THEN "altered" ELSE "marker"
    /\ UNCHANGED <<GENETIC_MODIFIERS, args, player, construction, first_player,
                   calls, skill, profile>>
    /\ UNCHANGED sessionVars

NextGeneticStage == ApplyMarker

SpecGeneticStage == InitGeneticStage /\ [][NextGeneticStage]_vars

\* the letter a marker is looked up by
GeneOf(marker) == IF marker \in DOMAIN UpperOf THEN UpperOf[marker] ELSE marker

MaxSlack == 6

BoundaryInputs ==
    {AttributeRange(f * 1000, c * 1000, f * 1000) :
        f \in (0 - MaxSlack)..(99 + MaxSlack),
        c \in (0 - MaxSlack)..(99 + MaxSlack)}

InitBoundary ==
    /\ GENETIC_MODIFIERS = GeneTableEmpty
    /\ NoSessionState
    /\ args \in BoundaryInputs
    /\ player = Missing /\ cursor = <<0, 0>> /\ construction = 0
    /\ first_player = Missing
    /\ pc = "new"
    /\ calls = <<>>
    /\ ability_range = Missing /\ skill = Missing /\ profile = Missing

\* ability_range = self.boundary_check(ability_range)
CallBoundaryCheck ==
    /\ pc = "new"
    /\ ability_range' = boundary_check(args)
    /\ pc' = "returned"
    /\ UNCHANGED <<GENETIC_MODIFIERS, args, player, cursor, construction,
                   first_player, calls, skill, profile>>
    /\ UNCHANGED sessionVars

NextBoundary == CallBoundaryCheck

SpecBoundary == InitBoundary /\ [][NextBoundary]_vars

\* C1: the range boundary_check returns satisfies
\* 0 <= floor <= ceiling <= 99, whatever floor and ceiling it was given
C1_BoundaryNormalised ==
    (pc = "returned") =>
        /\ 0 <= ability_range.floor
        /\ ability_range.floor <= ability_range.ceiling
        /\ ability_range.ceiling <= 99000

\* the width of a range
Width(r) == r.ceiling - r.floor

MaxCalls == 2

\* each threshold of the progression table, the value just below it, and
\* small and large steps in both directions
XPDeltas ==
    {SKILL_PROGRESSION[i] : i \in 2..11}
        \cup {SKILL_PROGRESSION[i] - 1 : i \in 2..11}
        \cup {-500, -1, 1, 600000}

InitSkill ==
    /\ GENETIC_MODIFIERS = GeneTableEmpty
    /\ NoPlayerState
    /\ NoSessionState
    /\ calls = <<>>
    /\ ability_range = Missing /\ profile = Missing
    /\ skill = NewSkillset

\* skill.increment_xp(d_xp); calls lists the d_xp values passed so far
IncrementXP ==
    /\ Len(calls) < MaxCalls
    /\ \E d_xp \in XPDeltas :
        /\ skill' = increment_xp(skill, d_xp)
        /\ calls' = Append(calls, d_xp)
    /\ UNCHANGED <<GENETIC_MODIFIERS, ability_range, profile>>
    /\ UNCHANGED <<playerVars, sessionVars>>

NextSkill == IncrementXP

SpecSkill == InitSkill /\ [][NextSkill]_vars

\* C5: for xp >= 0, get_level_for_xp(xp) is the highest level of 0..10
\* whose threshold is <= xp, so a larger xp never gives a lower level
C5_HighestLevel ==
    (skill.xp >= 0) =>
        LET level == get_level_for_xp(skill.xp) IN
        /\ level \in 0..10
        /\ \A lvl \in 0..10 : (XPRequired(lvl) <= skill.xp) <=> (lvl <= level)
        /\ \A d_xp \in XPDeltas :
              (d_xp >= 0) => (get_level_for_xp(skill.xp + d_xp) >= level)

\* xp 499 has been found at level 0 and xp 500 at level 1
C5_Witness ==
    /\ calls = <<499, 1>>
    /\ skill.xp = 500
    /\ get_level_for_xp(skill.xp) = 1
    /\ get_level_for_xp(499) = 0

\* C7: after every increment_xp call level = get_level_for_xp(xp) and lies
\* in 0..10; from xp = 500000 on the level is 10 whatever xp grows to
C7_LevelFollowsXP ==
    (calls # <<>>) =>
        /\ skill.level = get_level_for_xp(skill.xp)
        /\ skill.level \in 0..10
        /\ (skill.xp >= 500000) => (skill.level = 10)

\* a skillset taken to the last threshold and then past it
C7_Witness ==
    /\ Len(calls) = 2
    /\ calls[1] = 500000
    /\ skill.xp > 500000
    /\ skill.level = 10

\* C17: after any sequence of increment_xp calls, xp_to_next_level() of a
\* skillset below level 10 is the threshold of the next level minus xp and is
\* strictly positive; at level 10 it is None
C17_XPToNextLevel ==
    LET xp_needed == xp_to_next_level(skill) IN
    IF skill.level = 10 THEN xp_needed = None
    ELSE /\ skill.level \in 0..9
         /\ xp_needed + skill.xp = SKILL_PROGRESSION[skill.level + 2]
         /\ xp_needed > 0

\* a skillset taken to the threshold of level 3 and then one point back
C17_Witness ==
    /\ calls = <<2500, -1>>
    /\ skill.level = 2
    /\ xp_to_next_level(skill) = 1

\* ------------------------------------------------------------------------
\* The seeding specification: initialize_skillsets run once over small
\* trait and dependence tables drawn at the start, Steps 1-3 and then Step 4
\* ------------------------------------------------------------------------
\* "Ironclad Will" lists zero, one or two skillsets
SeedTraitTables ==
    {("Ironclad Will" :>
         [Abilities |-> <<<<"Durabilis", 60>>, <<"Willpower", 40>>>>,
          Sliders   |-> <<>>,
          Skillsets |-> listed] @@
      "Phoenix's Flight" :>
         [Abilities |-> <<<<"Durabilis", 60>>, <<"Recovery", 40>>>>,
          Sliders   |-> <<>>,
          Skillsets |-> <<"Vital Forge", "Unbreakable Will">>]) :
        listed \in {<<>>, <<"Unbreakable Will">>,
                    <<"Unbreakable Will", "Pain is Power">>}}

\* the weights of "Unbreakable Will" on the two abilities the player has
\* are 0, 0.5 or 1; "Luck" is an ability the player does not have
SeedDependenceTables ==
    {<<[name |-> "Unbreakable Will",
        abilities |-> <<<<"Willpower", w1>>, <<"Luck", 100>>, <<"Durabilis", w2>>>>],
       [name |-> "Pain is Power",
        abilities |-> <<<<"Willpower", 100>>>>],
       [name |-> "Vital Forge",
        abilities |-> <<<<"Recovery", 60>>, <<"Durabilis", 40>>>>]>> :
        w1 \in {0, 50, 100}, w2 \in {0, 50, 100}}

SeedAbilities ==
    {("Willpower" :> AttributeRange(20000, 70000, willpower) @@
      "Durabilis" :> AttributeRange(20000, 70000, 50000) @@
      "Recovery" :> AttributeRange(20000, 70000, 40000)) :
        willpower \in {30000, 60000}}

\* the overflow list: empty, or 5 points that "Ironclad Will" left over
SeedOverflowLogs == {<<>>, <<<<5000, "Ironclad Will", "Willpower">>>>}

InitSeeding ==
    /\ GENETIC_MODIFIERS = GeneTableEmpty
    /\ \E tm \in SeedTraitTables, dependence \in SeedDependenceTables,
          abils \in SeedAbilities, log \in SeedOverflowLogs :
        args = [cat |-> [TRAIT_MODIFIERS |-> tm,
                         SKILLSET_ABILITY_DEPENDENCE |-> dependence,
                         SkillsetIndex |-> IndexFrom(dependence, 1)],
                abilities |-> abils,
                gameplay_sliders |-> BaselineSliders,
                skill_init_overflow |-> log,
                traits |-> <<"Ironclad Will", "Phoenix's Flight">>]
    /\ player = Missing /\ pc = "start" /\ cursor = <<0, 0>>
    /\ construction = 0 /\ first_player = Missing
    /\ NoSessionState
    /\ NoProbeState
    /\ calls = <<>>

\* Steps 1-3 of initialize_skillsets
SeedBase ==
    /\ pc = "start"
    /\ player' = [skillsets |-> BaseSkillsets(args.cat, args.abilities,
                                             args.gameplay_sliders, args.traits)]
    /\ pc' = "base"
    /\ UNCHANGED <<GENETIC_MODIFIERS, args, cursor, construction, first_player,
                   calls>>
    /\ UNCHANGED <<sessionVars, probeVars>>

\* Step 4 of initialize_skillsets
SeedOverflow ==
    /\ pc = "base"
    /\ player' = [skillsets |->
                    OverflowLoop(args.cat, player.skillsets,
                                 args.skill_init_overflow,
                                 OverflowTraits(args.skill_init_overflow, <<>>))]
    /\ pc' = "seeded"
    /\ UNCHANGED <<GENETIC_MODIFIERS, args, cursor, construction, first_player,
                   calls>>
    /\ UNCHANGED <<sessionVars, probeVars>>

NextSeeding == SeedBase \/ SeedOverflow

SpecSeeding == InitSeeding /\ [][NextSeeding]_vars

\* the selected traits that list no skillset
EmptyTraits ==
    {t \in Range(args.traits) : args.cat.TRAIT_MODIFIERS[t].Skillsets = <<>>}

\* the skillsets whose weights on the abilities the player has sum to zero
ZeroWeightSkillsets ==
    {k \in DOMAIN args.cat.SkillsetIndex :
        LET dep == DependencyOf(args.cat, k).abilities
        IN /\ \E i \in DOMAIN dep : dep[i][1] \in DOMAIN args.abilities
           /\ \A i \in DOMAIN dep :
                 (dep[i][1] \in DOMAIN args.abilities) => (dep[i][2] = 0)}

\* C15: seeding leaves a Skillset for every entry of the dependence table;
\* a skillset whose matched weights sum to zero has no base XP; a trait that
\* lists zero skillsets changes no skillset: the result is the one seeding
\* gives without that trait and without its overflow entries; every other
\* skillset that a selected trait lists has base XP
C15_SeedingGuarded ==
    (pc \in {"base", "seeded"}) =>
        /\ DOMAIN player.skillsets = DOMAIN args.cat.SkillsetIndex
        /\ (pc = "base") =>
              /\ \A k \in ZeroWeightSkillsets : player.skillsets[k] = NewSkillset
              /\ \A k \in DOMAIN player.skillsets \ ZeroWeightSkillsets :
                    (traits_with_skillset(args.cat, args.traits, k) # <<>>)
                        => (player.skillsets[k].xp > 0)
        /\ (pc = "seeded" /\ EmptyTraits # {}) =>
              player.skillsets =
                  SeedSkillsets(args.cat, args.abilities, args.gameplay_sliders,
                                SelectSeq(args.skill_init_overflow,
                                          LAMBDA e : e[2] \notin EmptyTraits),
                                SelectSeq(args.traits,
                                          LAMBDA t : t \notin EmptyTraits))

\* seeding finished with a trait that lists zero skillsets and has an
\* overflow entry, and with a skillset whose matched weights sum to zero
C15_Witness ==
    /\ pc = "seeded"
    /\ "Ironclad Will" \in EmptyTraits
    /\ args.skill_init_overflow # <<>>
    /\ "Unbreakable Will" \in ZeroWeightSkillsets
    /\ player.skillsets["Unbreakable Will"].xp = 0
    /\ player.skillsets["Vital Forge"].xp > 0

\* ------------------------------------------------------------------------
\* The genetics specification: Genetics(father, mother, planet,
\* expression_defined) called once on marker lists drawn at the start
\* ------------------------------------------------------------------------
\* lists of 3 markers: one upper-case marker in each position, two equal
\* upper-case markers, two distinct ones, and none; then lists of 0, 2 and
\* 4 markers
MarkerLists ==
    {<<"B", "e", "d">>, <<"e", "B", "d">>, <<"e", "d", "B">>,
     <<"A", "A", "b">>, <<"A", "D", "m">>, <<"i", "e", "m">>,
     <<>>, <<"A", "b">>, <<"A", "b", "d", "e">>}

\* the longest marker list
MaxMarkers == 4

GeneticsArgs ==
    [father : MarkerLists, mother : MarkerLists, planet : MarkerLists,
     expression_defined : BOOLEAN]

InitGenetics ==
    /\ GENETIC_MODIFIERS = GeneTableEmpty
    /\ NoSessionState
    /\ args \in GeneticsArgs
    /\ player = Missing /\ cursor = <<0, 0>> /\ construction = 0
    /\ first_player = Missing
    /\ pc = "new"
    /\ calls = <<>>
    /\ NoProbeState

\* Genetics.__init__ returns; chosen_index holds the three
\* random.randrange(len(source_markers)) draws of process_source (read in
\* random mode only)
ConstructGenetics ==
    /\ pc = "new"
    /\ \E chosen_index \in (1..MaxMarkers) \X (1..MaxMarkers) \X (1..MaxMarkers) :
        /\ chosen_index[1] <= Max2(1, Len(args.father))
        /\ chosen_index[2] <= Max2(1, Len(args.mother))
        /\ chosen_index[3] <= Max2(1, Len(args.planet))
        /\ LET g == GeneticsInit(args.father, args.mother, args.planet,
                                 args.expression_defined, chosen_index)
           IN /\ g.ok
              /\ profile' = g
    /\ pc' = "constructed"
    /\ UNCHANGED <<GENETIC_MODIFIERS, args, player, cursor, construction,
                   first_player, calls, ability_range, skill>>
    /\ UNCHANGED sessionVars

\* process_source raises ValueError: no Genetics object exists
GeneticsValueError ==
    /\ pc = "new"
    /\ ~GeneticsInit(args.father, args.mother, args.planet,
                     args.expression_defined, <<1, 1, 1>>).ok
    /\ pc' = "raised"
    /\ UNCHANGED <<GENETIC_MODIFIERS, args, player, cursor, construction,
                   first_player, calls>>
    /\ UNCHANGED <<sessionVars, probeVars>>

\* the orders random.sample(self.expressed, 3) can draw 3 positions in
SampleOrders ==
    {perm \in [1..3 -> 1..3] : \A i, j \in 1..3 : (i # j) => (perm[i] # perm[j])}

\* profile.pass_genes() returns; calls holds the returned list
PassGenes ==
    /\ pc = "constructed"
    /\ \E perm \in SampleOrders : calls' = pass_genes(profile, perm)
    /\ pc' = "passed"
    /\ UNCHANGED <<GENETIC_MODIFIERS, args, player, cursor, construction,
                   first_player>>
    /\ UNCHANGED <<sessionVars, probeVars>>

\* profile.get_markers() returns; calls holds the returned list
GetMarkers ==
    /\ pc = "constructed"
    /\ calls' = get_markers(profile)
    /\ pc' = "listed"
    /\ UNCHANGED <<GENETIC_MODIFIERS, args, player, cursor, construction,
                   first_player>>
    /\ UNCHANGED <<sessionVars, probeVars>>

NextGenetics ==
    \/ ConstructGenetics \/ GeneticsValueError
    \/ PassGenes \/ GetMarkers

SpecGenetics == InitGenetics /\ [][NextGenetics]_vars

\* C10: get_markers() of every constructed Genetics has exactly 9 entries:
\* 3 upper-case expressed markers, one from each of the father, mother and
\* planet lists, then 6 lower-case dormant markers
C10_NineMarkers ==
    (pc = "constructed") =>
        LET markers == get_markers(profile) IN
        /\ Len(markers) = 9
        /\ \A i \in 1..3 : isupper(markers[i])
        /\ InSeq(markers[1], profile.father)
        /\ InSeq(markers[2], profile.mother)
        /\ InSeq(markers[3], profile.planet)
        /\ \A i \in 4..9 : islower(markers[i])

\* a group of the arguments that holds no upper-case marker
NoUpperCase(markers) == \A i \in DOMAIN markers : ~isupper(markers[i])

\* C11: in preset mode, when some group has no upper-case marker the
\* constructor raises: no Genetics object and no Player ever exists
C11_PresetNeedsUpperCase ==
    (/\ args.expression_defined
     /\ \/ NoUpperCase(args.father)
        \/ NoUpperCase(args.mother)
        \/ NoUpperCase(args.planet)) =>
        (pc # "constructed" /\ profile = Missing /\ player = Missing)

\* the constructor has raised on a preset-mode father group of three
\* lower-case markers
C11_Witness ==
    /\ pc = "raised"
    /\ args.expression_defined
    /\ args.father = <<"i", "e", "m">>
    /\ profile = Missing

\* C12: a Genetics object exists only when each of the three groups holds
\* exactly 3 markers, in both expression modes
C12_ThreeMarkersPerGroup ==
    (pc = "constructed") =>
        (Len(args.father) = 3 /\ Len(args.mother) = 3 /\ Len(args.planet) = 3)


\* C18: pass_genes() returns the 3 expressed markers in some order, each
\* position of expressed used once, and neither pass_genes() nor
\* get_markers() changes the expressed or the dormant markers
C18_PassGenesPermutes ==
    [][/\ (pc' = "passed") =>
            /\ Len(calls') = 3
            /\ \E order \in SampleOrders :
                  \A i \in 1..3 : calls'[i] = profile.expressed[order[i]]
       /\ (pc' \in {"passed", "listed"}) =>
            /\ profile'.expressed = profile.expressed
            /\ profile'.dormant = profile.dormant]_vars

\* pass_genes() has returned the three distinct expressed markers in
\* another order
C18_Witness ==
    /\ pc = "passed"
    /\ profile.expressed = <<"B", "A", "D">>
    /\ calls = <<"D", "B", "A">>

\* C30: after construction exactly one Skillset exists per entry of the
\* skillset catalog, and a skillset listed by none of the selected traits
\* has received no XP: its xp and its level are 0
C30_UnlistedSkillsetsUntouched ==
    [][/\ (pc = "seed") =>
            \A k \in SkillsetNames :
                (ListedBy(k) = <<>>) => AmountsFor(calls', k) = <<>>
       /\ (pc' = "done") =>
            /\ DOMAIN player'.skillsets = SkillsetNames
            /\ Cardinality(DOMAIN player'.skillsets)
                   = Len(SKILLSET_ABILITY_DEPENDENCE)
            /\ \A k \in SkillsetNames :
                  (ListedBy(k) = <<>>) =>
                      (player'.skillsets[k].xp = 0 /\ player'.skillsets[k].level = 0)]_vars

\* a constructed Player whose traits left overflow: a skillset of a selected
\* trait has xp and a level, a skillset no selected trait lists has neither
C30_Witness ==
    /\ pc = "done"
    /\ player.skill_init_overflow # <<>>
    /\ \E k \in SkillsetNames :
          /\ ListedBy(k) # <<>>
          /\ player.skillsets[k].xp > 0 /\ player.skillsets[k].level > 0
    /\ \E k \in SkillsetNames :
          /\ ListedBy(k) = <<>>
          /\ player.skillsets[k] = [xp |-> 0, level |-> 0]

\* C29: boundary_check is idempotent -- applied to the range it has
\* returned, it returns the same floor, ceiling and current
C29_BoundaryIdempotent ==
    (pc = "returned" /\ ability_range # Missing) =>
        boundary_check(ability_range) = ability_range

\* ------------------------------------------------------------------------
\* The lookup specification: the constructor over tables that refer to
\* names the catalog or the character does not have
\* ------------------------------------------------------------------------
\* the KeyError a subscript raises for a key the dict does not hold
KeyError == [raised |-> "KeyError"]

\* the ability loop of one trait; self.abilities[ability_name] is a subscript
RECURSIVE TraitAbilitiesOver(_, _, _)
TraitAbilitiesOver(p, trait, mods) ==
    IF mods = <<>> THEN p
    ELSE IF Head(mods)[1] \notin DOMAIN p.abilities THEN KeyError
    ELSE Then(TraitAbilityStep(p, trait, Head(mods)[1], Head(mods)[2]),
              LAMBDA q : TraitAbilitiesOver(q, trait, Tail(mods)))

\* the slider loop of one trait; self.gameplay_sliders[slider_name] is a
\* subscript
RECURSIVE TraitSlidersOver(_, _)
TraitSlidersOver(p, mods) ==
    IF mods = <<>> THEN p
    ELSE IF Head(mods)[1] \notin DOMAIN p.gameplay_sliders THEN KeyError
    ELSE Then(TraitSliderStep(p, Head(mods)[1], Head(mods)[2]),
              LAMBDA q : TraitSlidersOver(q, Tail(mods)))

\* impose_trait_ability_modifiers over a trait table
RECURSIVE ImposeOver(_, _, _)
ImposeOver(table, p, traits) ==
    IF traits = <<>> THEN p
    ELSE IF Head(traits) \notin DOMAIN table
    THEN ImposeOver(table, p, Tail(traits))
    ELSE LET q == TraitAbilitiesOver(p, Head(traits), table[Head(traits)].Abilities)
             r == IF q = KeyError THEN KeyError
                  ELSE TraitSlidersOver(q, table[Head(traits)].Sliders)
         IN IF r = KeyError THEN KeyError
            ELSE ImposeOver(table, r, Tail(traits))

\* the lineage table whole, without the ability "Willpower", and without the
\* gene "B" of any ability
AbsentGeneTables ==
    {GeneTableLineage,
     [a \in AbilityNames \ {"Willpower"} |-> GeneTableLineage[a]],
     [a \in AbilityNames |->
        [g \in UpperLetters \ {"B"} |-> GeneTableLineage[a][g]]]}

\* a catalog of two traits; "Ironclad Will" names the ability "Luck" or the
\* slider "Focus", which no character has
AbsentTraitTables ==
    {("Ironclad Will" :>
         [Abilities |-> abilities,
          Sliders   |-> sliders,
          Skillsets |-> <<"Unbreakable Will", "Pain is Power">>] @@
      "Phoenix's Flight" :>
         [Abilities |-> <<<<"Durabilis", 60>>, <<"Recovery", 40>>>>,
          Sliders   |-> <<>>,
          Skillsets |-> <<"Vital Forge">>]) :
        abilities \in {<<<<"Durabilis", 60>>, <<"Willpower", 40>>>>,
                       <<<<"Durabilis", 60>>, <<"Luck", 40>>>>},
        sliders \in {<<>>, <<<<"Memory", 10>>>>, <<<<"Focus", 10>>>>}}

\* "Pain is Power" depends on an ability the character has, on "Luck" only,
\* or on both
AbsentDependenceTables ==
    {<<[name |-> "Unbreakable Will",
        abilities |-> <<<<"Willpower", 60>>, <<"Durabilis", 40>>>>],
       [name |-> "Pain is Power",
        abilities |-> dependency],
       [name |-> "Vital Forge",
        abilities |-> <<<<"Recovery", 60>>, <<"Durabilis", 40>>>>]>> :
        dependency \in {<<<<"Willpower", 100>>>>, <<<<"Luck", 100>>>>,
                        <<<<"Luck", 50>>, <<"Willpower", 50>>>>}}

\* the five category traits are keys the two-trait catalog does not hold;
\* the essence traits hold two or one of its keys
AbsentSelections ==
    {[physical_trait |-> "Survivalist", mental_trait |-> "Strategist",
      social_trait |-> "Diplomat", livelihood_trait |-> "Mercantile",
      travel_trait |-> "Wayfinder",
      essence_traits_choice |-> essence] :
        essence \in {<<"Ironclad Will", "Phoenix's Flight",
                       "Chimera's Gift", "Prodigal Polymath">>,
                     <<"Chimera's Gift", "Ironclad Will",
                       "Prodigal Polymath", "Sapient Spark">>}}

InitAbsent ==
    /\ GENETIC_MODIFIERS \in AbsentGeneTables
    /\ \E tm \in AbsentTraitTables, dependence \in AbsentDependenceTables,
          t \in AbsentSelections :
        args = [cat |-> [TRAIT_MODIFIERS |-> tm,
                         SKILLSET_ABILITY_DEPENDENCE |-> dependence,
                         SkillsetIndex |-> IndexFrom(dependence, 1)],
                call |-> PlayerArgs(CHOOSE g \in GeneticsChoices : TRUE, t,
                                    [Height |-> 66, Weight |-> 150],
                                    [Year |-> 860, Month |-> 1], "Emerald")]
    /\ player = Missing /\ pc = "new" /\ cursor = <<0, 0>>
    /\ construction = 0 /\ first_player = Missing
    /\ calls = <<>>
    /\ NoSessionState
    /\ NoProbeState

\* __init__ up to the end of genetically_alter_abilities
AbsentGenetic ==
    /\ pc = "new"
    /\ player' = GeneticStage(BaselineStage(PlayerFields(args.call)),
                              GENETIC_MODIFIERS)
    /\ pc' = "genetic"
    /\ UNCHANGED <<GENETIC_MODIFIERS, args, cursor, construction, first_player,
                   calls>>
    /\ UNCHANGED <<sessionVars, probeVars>>

\* size_alter_abilities and impose_trait_ability_modifiers; a KeyError leaves
\* the constructor and no Player object results
AbsentTraits ==
    /\ pc = "genetic"
    /\ LET r == ImposeOver(args.cat.TRAIT_MODIFIERS, SomaticStage(player),
                           TraitList(player))
       IN IF r = KeyError
          THEN player' = Missing /\ pc' = "raised"
          ELSE player' = r /\ pc' = "trait"
    /\ UNCHANGED <<GENETIC_MODIFIERS, args, cursor, construction, first_player,
                   calls>>
    /\ UNCHANGED <<sessionVars, probeVars>>

\* the slider rebase, age_alter_abilities, initialize_skillsets and
\* age_alter_sliders
AbsentFinish ==
    /\ pc = "trait"
    /\ LET p5 == AgeAbilitiesStage(RebaseStage(player))
           p6 == [p5 EXCEPT !.skillsets =
                     SeedSkillsets(args.cat, p5.abilities, p5.gameplay_sliders,
                                   p5.skill_init_overflow, TraitList(p5))]
       IN player' = AgeSlidersStage(p6)
    /\ pc' = "done"
    /\ UNCHANGED <<GENETIC_MODIFIERS, args, cursor, construction, first_player,
                   calls>>
    /\ UNCHANGED <<sessionVars, probeVars>>

NextAbsent == AbsentGenetic \/ AbsentTraits \/ AbsentFinish

SpecAbsent == InitAbsent /\ [][NextAbsent]_vars

\* the trait table without the ability and slider names the character lacks
KnownNamesOnly(table, p) ==
    [t \in DOMAIN table |->
        [table[t] EXCEPT
            !.Abilities = SelectSeq(@, LAMBDA e : e[1] \in DOMAIN p.abilities),
            !.Sliders = SelectSeq(@, LAMBDA e : e[1] \in DOMAIN p.gameplay_sliders)]]

\* the genetic stage contributes nothing for an (ability, marker) pair the
\* table does not hold
AbsentGenePairsAddNothing ==
    (pc' = "genetic") =>
        \A a \in AbilityNames :
            player'.abilities[a] =
                GeneticLoop(BaselineAbilities[a], a,
                    SelectSeq(get_markers(args.call.genetics),
                              LAMBDA mk : /\ a \in DOMAIN GENETIC_MODIFIERS
                                          /\ upper(mk) \in DOMAIN GENETIC_MODIFIERS[a]),
                    GENETIC_MODIFIERS)

\* the trait stage contributes nothing for a selected key the catalog does
\* not hold, nor for an ability or slider name the character lacks
AbsentTraitNamesAddNothing ==
    (pc' = "trait") =>
        player' = ImposeOver(KnownNamesOnly(args.cat.TRAIT_MODIFIERS, player),
                             SomaticStage(player),
                             SelectSeq(TraitList(player),
                                       LAMBDA t : t \in DOMAIN args.cat.TRAIT_MODIFIERS))

\* a skillset without a dependency ability the character has gets what it
\* would get were no trait selected
AbsentDependenciesAddNothing ==
    (pc' = "done") =>
        \A k \in DOMAIN args.cat.SkillsetIndex :
            (ValidDependencies(DependencyOf(args.cat, k).abilities,
                               player.abilities) = <<>>)
                => player'.skillsets[k] =
                       SeedSkillsets(args.cat, player'.abilities,
                                     player.gameplay_sliders,
                                     player.skill_init_overflow, <<>>)[k]

=============================================================================
